---- MODULE Spec2Model ----
(***************************************************************************)
(* DrumSequencer (src/components/DrumSequencer.ts): look-ahead step        *)
(* scheduler, transport, pattern editing and melody loop playback.  Audio  *)
(* clock times and step durations are IEEE-754 binary64 values, as in the  *)
(* JavaScript code; the first section models the double arithmetic used.  *)
(***************************************************************************)
EXTENDS Integers, Sequences, FiniteSets, Bags, TLC

(* ---- binary64 arithmetic on nonnegative values --------------------------*)
(* A double is [m |-> 53-bit significand (MSB first), e |-> exponent of    *)
(* its last bit]; zero has an empty significand.  Rounding is to nearest,  *)
(* ties to even, as in every JavaScript number operation.                  *)
Zeros(n) == [i \in 1..n |-> 0]
RECURSIVE StripLZ1(_)
StripLZ1(b) == IF Head(b) = 0 THEN StripLZ1(Tail(b)) ELSE b
StripLZ(b) == IF \A i \in 1..Len(b) : b[i] = 0 THEN <<>> ELSE StripLZ1(b)
Pad(a, L) == Zeros(L - Len(a)) \o a
IntBits(n) ==
  LET L == CHOOSE k \in 0..30 : n < 2^k /\ (k = 0 \/ n >= 2^(k - 1))
  IN [i \in 1..L |-> (n \div 2^(L - i)) % 2]
(* Addition of two bit strings, by limbs of LimbBits bits. *)
LimbBits == 15
(* Value of the bits b[lo..hi]. *)
RECURSIVE BitsVal(_, _, _)
BitsVal(b, lo, hi) == IF hi < lo THEN 0 ELSE 2 * BitsVal(b, lo, hi - 1) + b[hi]
Limbs(b) == [j \in 1..(Len(b) \div LimbBits) |->
               BitsVal(b, LimbBits * (j - 1) + 1, LimbBits * j)]
LimbBitsOf(v) == [i \in 1..LimbBits |-> (v \div 2^(LimbBits - i)) % 2]
RECURSIVE LimbAdd(_, _, _)
LimbAdd(x, y, c) ==
  IF x = <<>> THEN (IF c = 1 THEN <<1>> ELSE <<>>)
  ELSE LET n == Len(x)
           v == x[n] + y[n] + c
       IN LimbAdd(SubSeq(x, 1, n - 1), SubSeq(y, 1, n - 1), v \div 2^LimbBits)
          \o LimbBitsOf(v % 2^LimbBits)
BitsAdd(a, b) ==
  LET L0 == IF Len(a) > Len(b) THEN Len(a) ELSE Len(b)
      L == ((L0 + LimbBits - 1) \div LimbBits) * LimbBits
  IN LimbAdd(Limbs(Pad(a, L)), Limbs(Pad(b, L)), 0)
FZero == [m |-> <<>>, e |-> 0]
Round(b, e) ==
  LET s == StripLZ(b) IN
  IF s = <<>> THEN FZero
  ELSE IF Len(s) <= 53 THEN [m |-> s \o Zeros(53 - Len(s)), e |-> e - (53 - Len(s))]
  ELSE LET k == SubSeq(s, 1, 53)
           rest == SubSeq(s, 54, Len(s))
           sticky == \E i \in 2..Len(rest) : rest[i] = 1
           up == rest[1] = 1 /\ (sticky \/ k[53] = 1)
           e2 == e + Len(s) - 53
       IN IF ~up THEN [m |-> k, e |-> e2]
          ELSE LET k2 == StripLZ(BitsAdd(k, <<1>>)) IN
               IF Len(k2) = 54 THEN [m |-> SubSeq(k2, 1, 53), e |-> e2 + 1]
               ELSE [m |-> k2, e |-> e2]
FAdd(x, y) ==
  IF x.m = <<>> THEN y ELSE IF y.m = <<>> THEN x
  ELSE LET E == IF x.e < y.e THEN x.e ELSE y.e
       IN Round(BitsAdd(x.m \o Zeros(x.e - E), y.m \o Zeros(y.e - E)), E)
BitsLess(a, b) ==
  LET L == ((Len(a) + LimbBits - 1) \div LimbBits) * LimbBits
      la == Limbs(Pad(a, L))
      lb == Limbs(Pad(b, L))
  IN \E j \in 1..Len(la) : la[j] < lb[j] /\ \A k \in 1..(j - 1) : la[k] = lb[k]
FLess(x, y) ==
  IF x.m = <<>> THEN y.m # <<>>
  ELSE IF y.m = <<>> THEN FALSE
  ELSE IF x.e # y.e THEN x.e < y.e ELSE BitsLess(x.m, y.m)
FracBitsN == 120
FracChunk == 12
RECURSIVE FracBits(_, _, _)
FracBits(r, b, n) ==
  IF n = 0 THEN <<IF r = 0 THEN 0 ELSE 1>>
  ELSE LET c == IF n < FracChunk THEN n ELSE FracChunk
           v == r * 2^c
       IN Pad(IntBits(v \div b), c) \o FracBits(v % b, b, n - c)
FDivInt(a, b) == Round(IntBits(a \div b) \o FracBits(a % b, b, FracBitsN), -(FracBitsN + 1))
(* The bits of x * k, x given by limbs, k < 2^16, with carry c. *)
RECURSIVE LimbMul(_, _, _)
LimbMul(x, k, c) ==
  IF x = <<>> THEN IntBits(c)
  ELSE LET n == Len(x)
           v == x[n] * k + c
       IN LimbMul(SubSeq(x, 1, n - 1), k, v \div 2^LimbBits) \o LimbBitsOf(v % 2^LimbBits)
(* The bits of m * k. *)
MulB(m, k) ==
  LET L == ((Len(m) + LimbBits - 1) \div LimbBits) * LimbBits
  IN LimbMul(Limbs(Pad(m, L)), k, 0)
FMulInt(k, x) == IF x.m = <<>> \/ k = 0 THEN FZero ELSE Round(MulB(x.m, k), x.e)
FDiv4(x) == IF x.m = <<>> THEN x ELSE [m |-> x.m, e |-> x.e - 2]

(* ---- program constants ---------------------------------------------------*)
NumPatterns == 4
NumTracks == 8
NumSteps == 16
InitBpm == 140
MinBpm == 60
MaxBpm == 200
PitchLimit == 2400
CentsPerPixel == 12
LookAhead == FDivInt(1, 10)
SecondsPerMinute == 60

(* ---- environment and bounds ----------------------------------------------*)
(* The audio clock counts frames at SampleRate; currentTime = frames /     *)
(* sampleRate.  Clock advances between JavaScript tasks.                   *)
SampleRate == 48000
ClockQuantum == 4800
ClockSteps == {ClockQuantum}
MaxFrames == 28800
MaxFramesLong == 86400
MelodyLens == {96000}
MaxHandlers == 2
MaxDowns == 2
MaxFramesEdit == 4800
MaxLoadCalls == 1
DmNow == 2
EdRate == 4
MaxLoads == 2
MaxExports == 2
MaxRecordings == 1
MaxNodes == 3
MaxEdClock == 8
FrameValues == {k * ClockQuantum : k \in 0..(MaxFramesLong \div ClockQuantum)}
(* currentTime = frames / sampleRate, and currentTime + scheduleAheadTime. *)
ClockTable == [f \in FrameValues |-> FDivInt(f, SampleRate)]
HorizonTable == [f \in FrameValues |-> FAdd(ClockTable[f], LookAhead)]
ClockTime(f) == ClockTable[f]
Horizon(f) == HorizonTable[f]

(* ---- pattern cells: null or a pitch offset in cents ----------------------*)
Null == <<>>
Cell(p) == <<p>>
Row(s) == [i \in 0..(NumSteps - 1) |-> s[i + 1]]
N == Null
Z == Cell(0)
EmptyRow == [i \in 0..(NumSteps - 1) |-> Null]
EmptyPattern == [t \in 0..(NumTracks - 1) |-> EmptyRow]

PREMADE_LOOPS == <<
  [name |-> "House", bpm |-> 140,
   pattern |-> [t \in 0..7 |-> CASE t = 1 -> Row(<<Z,N,N,N,Z,N,N,N,Z,N,N,N,Z,N,N,N>>)
                                 [] t = 3 -> Row(<<N,N,N,N,Z,N,N,N,N,N,N,N,Z,N,N,N>>)
                                 [] t = 4 -> Row(<<N,N,Z,N,N,N,Z,N,N,N,Z,N,N,N,Z,N>>)
                                 [] OTHER -> EmptyRow]],
  [name |-> "Trap", bpm |-> 150,
   pattern |-> [t \in 0..7 |-> CASE t = 0 -> Row(<<Z,N,N,N,N,N,N,Z,N,N,Z,N,N,N,N,N>>)
                                 [] t = 1 -> Row(<<Z,N,N,N,N,N,N,Z,N,N,Z,N,N,N,N,N>>)
                                 [] t = 2 -> Row(<<N,N,N,N,Z,N,N,N,N,N,N,N,Z,N,N,N>>)
                                 [] t = 4 -> Row(<<Z,Z,Z,N,Z,Z,Z,N,Z,Z,N,N,Z,Z,Z,N>>)
                                 [] OTHER -> EmptyRow]],
  [name |-> "Boom Bap", bpm |-> 90,
   pattern |-> [t \in 0..7 |-> CASE t = 1 -> Row(<<Z,N,Z,N,N,N,N,N,Z,N,N,Z,N,N,N,N>>)
                                 [] t = 2 -> Row(<<N,N,N,N,Z,N,N,N,N,N,N,N,Z,N,N,N>>)
                                 [] t = 4 -> Row(<<Z,N,Z,N,Z,N,Z,N,Z,N,Z,N,Z,N,Z,N>>)
                                 [] OTHER -> EmptyRow]] >>
LoopNames == {PREMADE_LOOPS[i].name : i \in 1..Len(PREMADE_LOOPS)}

(* DrumMachine (src/unnamed/part_000): eight voices, SAMPLES[0..7].       *)
DmVoices == 0..7
(* The embedded data of SAMPLES[i]: KICK, SNARE, CLAP, HH_CLOSED, HH_OPEN, *)
(* CRASH and PERC are the same string, KICK_808 another.                   *)
DmSampleData(i) == IF i = 0 THEN "KICK_808" ELSE "KICK"

VARIABLES
  patterns, currentPattern, bpm, isPlaying, currentStep, melodyBuffer, melodyDecodes,
  soundsLoaded, connected, listening,
  nextNoteTime, timerArmed, melodySources, melodySource,
  frames,
  activeEditingStep, stepDragStartY, stepDragStartPitch, stepHandlers,
  bpmDragStartY, bpmDragStartBpm, bpmHandlers,
  issued, steps, stopped, t0, runSteps, bpmFixed, prevPass, downs,
  dmOutcome, dmLoaded, dmSamples, dmCalls, dmStarted, dmError,
  audioBuffer, selectionStart, selectionEnd, edPlaying, playbackTime,
  isDragging, isLoading, pendingBuffer, edLoads, lastCut,
  playheadPosition, playbackStartTime, sourceNode, liveNodes, endedQueue,
  rafCurrent, rafOrphans, afSet, nextNode, edNow, pbLast, pbFrom, pbOps, edAttached,
  wavIn, wavOut, exportJob, exportOut, rowRef, presetData

vars == <<patterns, currentPattern, bpm, isPlaying, currentStep, melodyBuffer, melodyDecodes,
          soundsLoaded, connected, listening,
          nextNoteTime, timerArmed, melodySources, melodySource,
          frames,
          activeEditingStep, stepDragStartY, stepDragStartPitch, stepHandlers,
          bpmDragStartY, bpmDragStartBpm, bpmHandlers,
          issued, steps, stopped, t0, runSteps, bpmFixed, prevPass, downs,
          dmOutcome, dmLoaded, dmSamples, dmCalls, dmStarted, dmError,
          audioBuffer, selectionStart, selectionEnd, edPlaying, playbackTime,
          isDragging, isLoading, pendingBuffer, edLoads, lastCut,
          playheadPosition, playbackStartTime, sourceNode, liveNodes, endedQueue,
          rafCurrent, rafOrphans, afSet, nextNode, edNow, pbLast, pbFrom, pbOps, edAttached,
          wavIn, wavOut, exportJob, exportOut, rowRef, presetData>>

dmVars == <<dmOutcome, dmLoaded, dmSamples, dmCalls, dmStarted, dmError>>
edVars == <<audioBuffer, selectionStart, selectionEnd, edPlaying, playbackTime,
            isDragging, isLoading, pendingBuffer, edLoads, lastCut,
            playheadPosition, playbackStartTime, sourceNode, liveNodes, endedQueue,
            rafCurrent, rafOrphans, afSet, nextNode, edNow, pbLast, pbFrom, pbOps, edAttached>>
(* The last WAV encoder call: its input and the bytes it produced.         *)
wavVars == <<wavIn, wavOut>>

Init ==
  /\ patterns = [p \in 0..(NumPatterns - 1) |-> EmptyPattern]
  /\ currentPattern = 0
  /\ bpm = InitBpm
  /\ isPlaying = FALSE
  /\ currentStep = 0
  /\ melodyBuffer = 0
  /\ melodyDecodes = EmptyBag
  /\ soundsLoaded = FALSE
  /\ connected = TRUE
  /\ listening = FALSE
  /\ nextNoteTime = FZero
  /\ timerArmed = FALSE
  /\ melodySources = {}
  /\ melodySource = <<>>
  /\ frames = 0
  /\ activeEditingStep = <<>>
  /\ stepDragStartY = 0
  /\ stepDragStartPitch = 0
  /\ stepHandlers = <<>>
  /\ bpmDragStartY = 0
  /\ bpmDragStartBpm = 0
  /\ bpmHandlers = FALSE
  /\ issued = <<>>
  /\ steps = <<>>
  /\ stopped = TRUE
  /\ t0 = FZero
  /\ runSteps = 0
  /\ bpmFixed = TRUE
  /\ prevPass = 0
  /\ downs = 0
  /\ dmOutcome = [i \in DmVoices |-> "unknown"]
  /\ dmLoaded = FALSE
  /\ dmSamples = [i \in DmVoices |-> FALSE]
  /\ dmCalls = <<>>
  /\ dmStarted = <<>>
  /\ dmError = FALSE
  /\ audioBuffer = Null
  /\ selectionStart = Null
  /\ selectionEnd = Null
  /\ edPlaying = FALSE
  /\ playbackTime = 0
  /\ isDragging = FALSE
  /\ isLoading = TRUE
  /\ pendingBuffer = EmptyBag
  /\ edLoads = 0
  /\ lastCut = Null
  /\ playheadPosition = 0
  /\ playbackStartTime = 0
  /\ sourceNode = 0
  /\ liveNodes = {}
  /\ endedQueue = {}
  /\ rafCurrent = FALSE
  /\ rafOrphans = 0
  /\ afSet = FALSE
  /\ nextNode = 1
  /\ edNow = 0
  /\ pbLast = "none"
  /\ pbFrom = 0
  /\ pbOps = <<>>
  /\ edAttached = TRUE
  /\ wavIn = Null
  /\ wavOut = <<>>
  /\ exportJob = EmptyBag
  /\ exportOut = Null
  /\ rowRef = [p \in 0..(NumPatterns - 1) |-> [t \in 0..(NumTracks - 1) |-> Null]]
  /\ presetData = [k \in 1..Len(PREMADE_LOOPS) |-> PREMADE_LOOPS[k].pattern]

(* ---- scheduler ------------------------------------------------------------*)
(* Seconds per sixteenth note: (60.0 / bpm) / 4.                            *)
StepDurBad(b) == FDiv4(FDivInt(SecondsPerMinute, MaxBpm))
StepDurTable == [b \in MinBpm..MaxBpm |-> FDiv4(FDivInt(SecondsPerMinute, b))]
StepDur(b) == StepDurTable[b]
(* The offline export's time for step k: (step * (60 / bpm)) / 4.           *)
OfflineStepTimeTable == [b \in MinBpm..MaxBpm |->
                          [k \in 0..NumSteps |-> FDiv4(FMulInt(k, FDivInt(SecondsPerMinute, b)))]]
OfflineStepTime(k, b) == OfflineStepTimeTable[b][k]
MelodyDurTable == [len \in MelodyLens |-> FDivInt(len, SampleRate)]
MelodyDur(len) == MelodyDurTable[len]

ScheduleNoteMelodyFirst(st, beat, time, pats, cp, mel) ==
  LET tr == SelectSeq(<<0, 1, 2, 3, 4, 5, 6, 7>>, LAMBDA i : pats[cp][i][beat] # Null)
      drums == [j \in 1..Len(tr) |->
                  [kind |-> "drum", track |-> tr[j], step |-> beat, time |-> time,
                   pitch |-> pats[cp][tr[j]][beat][1]]]
      melody == beat = 0 /\ mel # 0
  IN [st EXCEPT
        !.iss = @ \o (IF melody
                           THEN <<[kind |-> "melody", track |-> -1, step |-> beat, time |-> time, pitch |-> 0]>>
                           ELSE <<>>) \o drums,
        !.srcs = IF melody THEN @ \cup {[start |-> time, dur |-> MelodyDur(mel)]} ELSE @,
        !.ms = IF melody THEN <<[start |-> time, dur |-> MelodyDur(mel)]>> ELSE @]

(* scheduleNote(beatNumber, time) on the loop state st: one play() call per *)
(* non-null cell of the current pattern in track order, then the melody    *)
(* source on beat 0 when a melody buffer is present.                       *)
ScheduleNote(st, beat, time, pats, cp, mel) ==
  LET tr == SelectSeq(<<0, 1, 2, 3, 4, 5, 6, 7>>, LAMBDA i : pats[cp][i][beat] # Null)
      drums == [j \in 1..Len(tr) |->
                  [kind |-> "drum", track |-> tr[j], step |-> beat, time |-> time,
                   pitch |-> pats[cp][tr[j]][beat][1]]]
      melody == beat = 0 /\ mel # 0
  IN [st EXCEPT
        !.iss = @ \o drums \o (IF melody
                                THEN <<[kind |-> "melody", track |-> -1, step |-> beat, time |-> time, pitch |-> 0]>>
                                ELSE <<>>),
        !.srcs = IF melody THEN @ \cup {[start |-> time, dur |-> MelodyDur(mel)]} ELSE @,
        !.ms = IF melody THEN <<[start |-> time, dur |-> MelodyDur(mel)]>> ELSE @]

(* this.currentStep = (this.currentStep + 1) % 16 *)
NextStepBad(cs) == (cs + 1) % (NumSteps - 1)
NextStep(cs) == (cs + 1) % NumSteps

(* The while loop of scheduler(): schedule and advance while nextNoteTime  *)
(* < currentTime + scheduleAheadTime.                                       *)
RECURSIVE SchedLoop(_, _, _, _, _, _)
SchedLoop(st, f, b, pats, cp, mel) ==
  IF FLess(st.ns, Horizon(f))
  THEN LET st1 == ScheduleNote(st, st.cs, st.ns, pats, cp, mel)
           st2 == [st1 EXCEPT !.stp = @ \o <<[step |-> st.cs, time |-> st.ns]>>,
                              !.ns = FAdd(st.ns, StepDur(b)),
                              !.cs = NextStep(st.cs)]
       IN SchedLoop(st2, f, b, pats, cp, mel)
  ELSE st

(* One run of scheduler() from nextNoteTime ns and step cs: the loop, then *)
(* window.setTimeout(this.scheduler, 25.0) re-arms the timer.              *)
SchedulerPass(ns, cs) ==
  LET r == SchedLoop([ns |-> ns, cs |-> cs, iss |-> <<>>, stp |-> <<>>,
                      srcs |-> melodySources, ms |-> melodySource],
                     frames, bpm, patterns, currentPattern, melodyBuffer)
  IN /\ nextNoteTime' = r.ns
     /\ currentStep' = r.cs
     /\ issued' = r.iss
     /\ steps' = r.stp
     /\ exportOut' = Null
     /\ melodySources' = r.srcs
     /\ melodySource' = r.ms
     /\ timerArmed' = TRUE
     /\ prevPass' = frames

(* ToUint32 of a nonnegative double below 2^31 (the OfflineAudioContext     *)
(* length argument): its integer part.                                      *)
FTrunc(x) == IF x.m = <<>> \/ 53 + x.e <= 0 THEN 0
             ELSE IF x.e >= 0 THEN BitsVal(x.m, 1, 53) * 2^x.e
             ELSE BitsVal(x.m, 1, 53 + x.e)
(* SampleRate * x: SampleRate = 375 * 2^7 and scaling by a power of two is *)
(* exact, so the rounded product is round(375 * x) * 2^7.                   *)
FMulSampleRate(x) == LET y == FMulInt(SampleRate \div 128, x) IN
                     IF y.m = <<>> THEN y ELSE [m |-> y.m, e |-> y.e + 7]
(* sampleRate * loopDuration, loopDuration = (16 * (60 / bpm)) / 4. *)
ExportFrames(b) == FTrunc(FMulSampleRate(FDiv4(FMulInt(NumSteps, FDivInt(SecondsPerMinute, b)))))
(* for step in 0..15, for track in 0..7: play(track, time, pitch) if the    *)
(* cell is not null.                                                          *)
ExportDrums(pat, b) ==
  LET calls(st) == SelectSeq(<<0, 1, 2, 3, 4, 5, 6, 7>>, LAMBDA t : pat[t][st] # Null)
      RECURSIVE Steps(_)
      Steps(st) == IF st >= NumSteps THEN <<>>
                   ELSE [i \in 1..Len(calls(st)) |->
                           [track |-> calls(st)[i], time |-> OfflineStepTime(st, b),
                            pitch |-> pat[calls(st)[i]][st][1]]] \o Steps(st + 1)
  IN Steps(0)

(* ---- transport --------------------------------------------------------------*)
editOwn == <<patterns, currentPattern, activeEditingStep, stepDragStartY,
             stepDragStartPitch, stepHandlers, bpmDragStartY, bpmDragStartBpm, bpmHandlers, downs,
             rowRef, presetData, dmVars, edVars, wavVars>>
editCore == <<editOwn, melodyDecodes>>
editVars == <<editCore, exportJob>>
NoOutput == issued' = <<>> /\ steps' = <<>> /\ exportOut' = Null

StopPlaybackNoClear ==
  /\ timerArmed' = timerArmed
  /\ melodySources' = IF melodySource # <<>>
                      THEN melodySources \ {melodySource[1]}
                      ELSE melodySources
  /\ currentStep' = 0
  /\ stopped' = TRUE
  /\ NoOutput
  /\ t0' = FZero /\ prevPass' = 0 /\ runSteps' = 0 /\ bpmFixed' = TRUE
  /\ UNCHANGED <<nextNoteTime, melodySource>>
StopPlaybackKeepStep ==
  /\ timerArmed' = FALSE
  /\ melodySources' = IF melodySource # <<>>
                      THEN melodySources \ {melodySource[1]}
                      ELSE melodySources
  /\ currentStep' = currentStep
  /\ stopped' = TRUE
  /\ NoOutput
  /\ t0' = FZero /\ prevPass' = 0 /\ runSteps' = 0 /\ bpmFixed' = TRUE
  /\ UNCHANGED <<nextNoteTime, melodySource>>

(* stopPlayback(): clear the pending timeout, stop the last melody source,  *)
(* reset the step cursor.                                                   *)
StopPlayback ==
  /\ timerArmed' = FALSE
  /\ melodySources' = IF melodySource # <<>>
                      THEN melodySources \ {melodySource[1]}
                      ELSE melodySources
  /\ currentStep' = 0
  /\ stopped' = TRUE
  /\ NoOutput
  /\ t0' = FZero /\ prevPass' = 0 /\ runSteps' = 0 /\ bpmFixed' = TRUE
  /\ UNCHANGED <<nextNoteTime, melodySource>>

StartPlaybackStaleTime ==
  /\ SchedulerPass(nextNoteTime, 0)
  /\ runSteps' = Len(steps')
  /\ t0' = ClockTime(frames)
  /\ stopped' = FALSE
  /\ bpmFixed' = TRUE

(* startPlayback(): currentStep = 0, nextNoteTime = currentTime, scheduler(). *)
StartPlayback ==
  /\ SchedulerPass(ClockTime(frames), 0)
  /\ runSteps' = Len(steps')
  /\ t0' = ClockTime(frames)
  /\ stopped' = FALSE
  /\ bpmFixed' = TRUE

(* togglePlayback() *)
TogglePlayback ==
  /\ connected
  /\ soundsLoaded
  /\ isPlaying' = ~isPlaying
  /\ IF ~isPlaying
     THEN StartPlayback
     ELSE StopPlayback
  /\ UNCHANGED editVars
  /\ UNCHANGED <<bpm, melodyBuffer, soundsLoaded, connected, listening, frames>>

(* The pending window.setTimeout(this.scheduler, 25.0) fires. *)
SchedulerTick ==
  /\ timerArmed
  /\ SchedulerPass(nextNoteTime, currentStep)
  /\ runSteps' = runSteps + Len(steps')
  /\ UNCHANGED editVars
  /\ UNCHANGED <<bpm, isPlaying, melodyBuffer, soundsLoaded, connected, listening,
                 frames, stopped, t0, bpmFixed>>

(* exportAudio(drumsOnly, melodyOnly) up to `await loadSamples()`:         *)
(* stopPlayback() (isPlaying is left as it was), loopDuration from the      *)
(* current bpm, the OfflineAudioContext of that length.  Mix and Melody     *)
(* buttons need a melody.  Nothing stops a further click while earlier      *)
(* exports are in flight: exportJob is the bag of pending calls, each at    *)
(* its await.  A call waiting for loadSamples() also keeps the bpm, the     *)
(* current pattern and whether a melody exists at the click (bpm0, pat0,    *)
(* mel0), for the properties.                                               *)
ExportAudio(drumsOnly, melodyOnly) ==
  /\ connected
  /\ (drumsOnly /\ ~melodyOnly) \/ melodyBuffer # 0
  /\ BagCardinality(exportJob) < MaxExports
  /\ StopPlayback
  /\ exportJob' = exportJob (+)
                  SetToBag({[phase |-> "load", drumsOnly |-> drumsOnly, melodyOnly |-> melodyOnly,
                             length |-> ExportFrames(bpm), bpm0 |-> bpm,
                             pat0 |-> patterns[currentPattern], mel0 |-> melodyBuffer # 0]})
  /\ UNCHANGED editCore
  /\ UNCHANGED <<bpm, isPlaying, melodyBuffer, soundsLoaded, connected, listening, frames>>

(* The offline loadSamples() of pending export j settles and exportAudio    *)
(* runs on to `await offlineContext.startRendering()`: the play() calls for *)
(* the cells of this.patterns[this.currentPattern] at                       *)
(* (step * (60 / this.bpm)) / 4 unless melodyOnly, and the melody source at *)
(* 0 unless drumsOnly and only with this.melodyBuffer, all read now; they   *)
(* are the output of the step.  A sample that fails to load is only logged  *)
(* by loadSamples() and its play() calls start nothing.                     *)
ExportScheduled(j, sampleFailed) ==
  /\ j \in BagToSet(exportJob)
  /\ j.phase = "load"
  /\ exportOut' = <<[kind |-> "scheduled",
                     length |-> j.length,
                     drums |-> IF j.melodyOnly THEN <<>>
                               ELSE ExportDrums(patterns[currentPattern], bpm),
                     melody |-> ~j.drumsOnly /\ melodyBuffer # 0,
                     job |-> j]>>
  /\ exportJob' = (exportJob (-) SetToBag({j}))
                  (+) SetToBag({[phase |-> "render", sampleFailed |-> sampleFailed]})
  /\ issued' = <<>> /\ steps' = <<>>
  /\ UNCHANGED editCore
  /\ UNCHANGED <<bpm, isPlaying, currentStep, melodyBuffer, soundsLoaded, connected, listening,
                 nextNoteTime, timerArmed, melodySources, melodySource, frames,
                 stopped, t0, runSteps, bpmFixed, prevPass>>

(* startRendering() of pending export j settles: downloadWav(renderedBuffer) *)
(* on success; a rejection rejects the promise of exportAudio, which the     *)
(* click handler drops.  No notification is shown in either case.           *)
ExportRendered(j, renderOk) ==
  /\ j \in BagToSet(exportJob)
  /\ j.phase = "render"
  /\ exportOut' = <<[kind |-> "rendered",
                     failed |-> j.sampleFailed \/ ~renderOk,
                     rejected |-> ~renderOk,
                     notices |-> 0]>>
  /\ exportJob' = exportJob (-) SetToBag({j})
  /\ issued' = <<>> /\ steps' = <<>>
  /\ UNCHANGED editCore
  /\ UNCHANGED <<bpm, isPlaying, currentStep, melodyBuffer, soundsLoaded, connected, listening,
                 nextNoteTime, timerArmed, melodySources, melodySource, frames,
                 stopped, t0, runSteps, bpmFixed, prevPass>>

(* disconnectedCallback(): stopPlayback() and removal of the recording     *)
(* listeners.                                                               *)
Disconnect ==
  /\ connected
  /\ connected' = FALSE
  /\ listening' = FALSE
  /\ StopPlayback
  /\ UNCHANGED editVars
  /\ UNCHANGED <<bpm, isPlaying, melodyBuffer, soundsLoaded, frames>>

(* connectedCallback() after `await this.drumMachine.loadSamples()`.        *)
SamplesLoaded ==
  /\ ~soundsLoaded
  /\ soundsLoaded' = TRUE
  /\ listening' = TRUE
  /\ NoOutput
  /\ UNCHANGED editVars
  /\ UNCHANGED <<bpm, isPlaying, currentStep, melodyBuffer, connected, nextNoteTime,
                 timerArmed, melodySources, melodySource, frames, stopped, t0,
                 runSteps, bpmFixed, prevPass>>

(* recording-finished event: the listener (attached while connected) runs *)
(* handleRecordingFinished up to its first await; the blob's decode is    *)
(* pending from then on.                                                   *)
RecordingDispatched(len) ==
  /\ listening
  /\ BagCardinality(melodyDecodes) < MaxRecordings
  /\ melodyDecodes' = melodyDecodes (+) SetToBag({len})
  /\ NoOutput
  /\ UNCHANGED <<editOwn, exportJob>>
  /\ UNCHANGED <<bpm, isPlaying, currentStep, melodyBuffer, soundsLoaded, connected, listening,
                 nextNoteTime, timerArmed, melodySources, melodySource, frames,
                 stopped, t0, runSteps, bpmFixed, prevPass>>

(* handleRecordingFinished after its awaits: the decoded recording becomes *)
(* melodyBuffer (ok), or decodeAudioData rejects and melodyBuffer is kept. *)
(* Nothing checks that the element is still connected.                    *)
RecordingDecoded(len, ok) ==
  /\ len \in BagToSet(melodyDecodes)
  /\ melodyDecodes' = melodyDecodes (-) SetToBag({len})
  /\ melodyBuffer' = IF ok THEN len ELSE melodyBuffer
  /\ NoOutput
  /\ UNCHANGED <<editOwn, exportJob>>
  /\ UNCHANGED <<bpm, isPlaying, currentStep, soundsLoaded, connected, listening,
                 nextNoteTime, timerArmed, melodySources, melodySource, frames,
                 stopped, t0, runSteps, bpmFixed, prevPass>>

(* The audio clock advances by d frames between tasks; melody sources    *)
(* whose buffer has played to its end are finished.  melodySources holds *)
(* the sources that are scheduled or still sounding.                      *)
ClockAdvance(d, bound) ==
  /\ frames + d <= bound
  /\ frames' = frames + d
  /\ melodySources' = {src \in melodySources : FLess(ClockTime(frames'), FAdd(src.start, src.dur))}
  /\ NoOutput
  /\ UNCHANGED editVars
  /\ UNCHANGED <<bpm, isPlaying, currentStep, melodyBuffer, soundsLoaded, connected,
                 listening, nextNoteTime, timerArmed, melodySource,
                 stopped, t0, runSteps, bpmFixed, prevPass>>

(* ---- pattern and tempo editing ---------------------------------------------*)
(* Pointer coordinates are in eighths of a CSS pixel (clientY is fractional).*)
sched == <<isPlaying, currentStep, melodyBuffer, melodyDecodes, soundsLoaded, connected, listening,
           nextNoteTime, timerArmed, melodySources, melodySource, frames,
           stopped, t0, runSteps, prevPass, dmVars, edVars, wavVars, exportJob>>

(* Math.round: floor(x + 0.5); here of a value given in halves. *)
RoundHalves(v2) == (v2 + 1) \div 2
Clamp(x, lo, hi) == IF x < lo THEN lo ELSE IF x > hi THEN hi ELSE x
DragPitchNoClamp(startPitch, startY, y) ==
  RoundHalves(2 * startPitch + 3 * (startY - y))
(* moveHandler: stepDragStartPitch + delta * 12, clamped to [-2400, 2400], *)
(* rounded; delta = (stepDragStartY - clientY) pixels.                      *)
DragPitch(startPitch, startY, y) ==
  RoundHalves(Clamp(2 * startPitch + 3 * (startY - y), -2 * PitchLimit, 2 * PitchLimit))
(* handleBpmDragMove: round(clamp(bpmDragStartBpm + delta, 60, 200)).       *)
DragBpm(startBpm, startY, y) ==
  (Clamp(8 * startBpm + (startY - y), 8 * MinBpm, 8 * MaxBpm) + 4) \div 8

SetCell(pats, cp, track, step, v) == [pats EXCEPT ![cp][track][step] = v]

(* Row objects: rowRef[p][t] is Null when patterns[p][t] is an array of its *)
(* own, <<k, t>> when it is the array PREMADE_LOOPS[k].pattern[t] itself;   *)
(* presetData holds the contents of the preset arrays.                     *)
CopyRowShared(ref) == ref
(* [...row]: a new array. *)
CopyRow(ref) == Null
RowId(refs, p, t) == IF refs[p][t] = Null THEN <<"row", p, t>> ELSE refs[p][t]
(* The writes of W, one at a time, into the array object of their row: every *)
(* row and preset sharing that object sees them.                            *)
RECURSIVE ApplyWrites(_, _, _, _)
ApplyWrites(refs, ws, pats, pres) ==
  IF ws = {} THEN <<pats, pres>>
  ELSE LET w == CHOOSE x \in ws : TRUE
           id == RowId(refs, currentPattern, w.track)
           pats2 == IF id = <<"row", currentPattern, w.track>>
                    THEN [pats EXCEPT ![currentPattern][w.track][w.step] = w.v]
                    ELSE [p \in 0..(NumPatterns - 1) |-> [t \in 0..(NumTracks - 1) |->
                           IF RowId(refs, p, t) = id THEN [pats[p][t] EXCEPT ![w.step] = w.v]
                           ELSE pats[p][t]]]
           pres2 == IF Len(id) = 2 THEN [pres EXCEPT ![id[1]][id[2]][w.step] = w.v] ELSE pres
       IN ApplyWrites(refs, ws \ {w}, pats2, pres2)
(* newPatterns = this.patterns.map(p => p.map(t => [...t])), then the       *)
(* writes newPatterns[currentPattern][w.track][w.step] = w.v, then          *)
(* this.patterns = newPatterns.                                             *)
EditWrite(W) ==
  LET refs == [p \in 0..(NumPatterns - 1) |-> [t \in 0..(NumTracks - 1) |-> CopyRow(rowRef[p][t])]]
      r == ApplyWrites(refs, W, patterns, presetData)
  IN /\ rowRef' = refs
     /\ patterns' = r[1]
     /\ presetData' = r[2]

(* handleStepPointerDown(e, track, step) *)
StepPointerDown(track, step, y, button) ==
  /\ connected
  /\ IF button = 2
     THEN /\ EditWrite({[track |-> track, step |-> step, v |-> Null]})
          /\ UNCHANGED <<activeEditingStep, stepDragStartY, stepDragStartPitch, stepHandlers, downs>>
     ELSE LET cur == patterns[currentPattern][track][step] IN
          /\ Len(stepHandlers) < MaxHandlers
          /\ downs < MaxDowns
          /\ downs' = downs + 1
          /\ activeEditingStep' = <<track, step>>
          /\ stepDragStartY' = y
          /\ IF cur = Null
             THEN /\ stepDragStartPitch' = 0
                  /\ EditWrite({[track |-> track, step |-> step, v |-> Cell(0)]})
             ELSE /\ stepDragStartPitch' = cur[1]
                  /\ UNCHANGED <<patterns, rowRef, presetData>>
          /\ stepHandlers' = Append(stepHandlers,
                                    [track |-> track, step |-> step, cur |-> cur, dragged |-> FALSE])
  /\ NoOutput
  /\ UNCHANGED <<currentPattern, bpm, bpmDragStartY, bpmDragStartBpm, bpmHandlers, bpmFixed>>
  /\ UNCHANGED sched

(* A window pointermove: every registered step moveHandler in order, and   *)
(* handleBpmDragMove when registered.                                       *)
PointerMove(y) ==
  /\ stepHandlers # <<>> \/ bpmHandlers
  /\ LET active == activeEditingStep # <<>> /\ stepHandlers # <<>>
         p == DragPitch(stepDragStartPitch, stepDragStartY, y)
         cells == {<<stepHandlers[i].track, stepHandlers[i].step>> : i \in 1..Len(stepHandlers)}
     IN /\ IF active
           THEN EditWrite({[track |-> c[1], step |-> c[2], v |-> Cell(p)] : c \in cells})
           ELSE UNCHANGED <<patterns, rowRef, presetData>>
        /\ stepHandlers' = IF active
                           THEN [i \in 1..Len(stepHandlers) |-> [stepHandlers[i] EXCEPT !.dragged = TRUE]]
                           ELSE stepHandlers
  /\ bpm' = IF bpmHandlers THEN DragBpm(bpmDragStartBpm, bpmDragStartY, y) ELSE bpm
  /\ bpmFixed' = (bpmFixed /\ bpm' = bpm)
  /\ NoOutput
  /\ UNCHANGED <<currentPattern, activeEditingStep, stepDragStartY, stepDragStartPitch,
                 bpmDragStartY, bpmDragStartBpm, bpmHandlers>>
  /\ UNCHANGED downs
  /\ UNCHANGED sched

(* A window pointerup: every registered upHandler (a click without drag on *)
(* an existing note clears it), and handleBpmDragEnd.                       *)
PointerUp ==
  /\ stepHandlers # <<>> \/ bpmHandlers
  /\ LET off == {<<stepHandlers[i].track, stepHandlers[i].step>> :
                   i \in {j \in 1..Len(stepHandlers) :
                            ~stepHandlers[j].dragged /\ stepHandlers[j].cur # Null}}
     IN IF off = {} THEN UNCHANGED <<patterns, rowRef, presetData>>
        ELSE EditWrite({[track |-> c[1], step |-> c[2], v |-> Null] : c \in off})
  /\ activeEditingStep' = IF stepHandlers # <<>> THEN <<>> ELSE activeEditingStep
  /\ stepHandlers' = <<>>
  /\ bpmHandlers' = FALSE
  /\ NoOutput
  /\ UNCHANGED <<currentPattern, bpm, stepDragStartY, stepDragStartPitch,
                 bpmDragStartY, bpmDragStartBpm, bpmFixed>>
  /\ UNCHANGED downs
  /\ UNCHANGED sched

(* handleBpmDragStart *)
BpmDragStart(y) ==
  /\ connected
  /\ bpmDragStartY' = y
  /\ bpmDragStartBpm' = bpm
  /\ bpmHandlers' = TRUE
  /\ downs < MaxDowns
  /\ downs' = downs + 1
  /\ NoOutput
  /\ UNCHANGED <<patterns, currentPattern, bpm, activeEditingStep, stepDragStartY,
                 stepDragStartPitch, stepHandlers, bpmFixed, rowRef, presetData>>
  /\ UNCHANGED sched

ChangePatternResetStep(i) ==
  /\ connected
  /\ currentPattern' = i
  /\ currentStep' = 0
  /\ NoOutput
  /\ UNCHANGED <<patterns, bpm, activeEditingStep, stepDragStartY, stepDragStartPitch,
                 stepHandlers, bpmDragStartY, bpmDragStartBpm, bpmHandlers, bpmFixed,
                 rowRef, presetData>>
  /\ UNCHANGED downs
  /\ UNCHANGED <<isPlaying, melodyBuffer, melodyDecodes, soundsLoaded, connected, listening,
                 nextNoteTime, timerArmed, melodySources, melodySource, frames,
                 stopped, t0, runSteps, prevPass, dmVars, edVars, wavVars, exportJob>>

(* changePattern(i) *)
ChangePattern(i) ==
  /\ connected
  /\ currentPattern' = i
  /\ NoOutput
  /\ UNCHANGED <<patterns, bpm, activeEditingStep, stepDragStartY, stepDragStartPitch,
                 stepHandlers, bpmDragStartY, bpmDragStartBpm, bpmHandlers, bpmFixed,
                 rowRef, presetData>>
  /\ UNCHANGED downs
  /\ UNCHANGED sched

LoadLoopFirstSlot(name) ==
  /\ connected
  /\ IF name \in LoopNames
     THEN LET k == CHOOSE i \in 1..Len(PREMADE_LOOPS) : PREMADE_LOOPS[i].name = name IN
          /\ patterns' = [patterns EXCEPT ![0] = presetData[k]]
          /\ rowRef' = [rowRef EXCEPT ![0] = [t \in 0..(NumTracks - 1) |-> CopyRow(<<k, t>>)]]
          /\ bpm' = PREMADE_LOOPS[k].bpm
     ELSE UNCHANGED <<patterns, bpm, rowRef>>
  /\ bpmFixed' = (bpmFixed /\ bpm' = bpm)
  /\ NoOutput
  /\ UNCHANGED <<currentPattern, activeEditingStep, stepDragStartY, stepDragStartPitch,
                 stepHandlers, bpmDragStartY, bpmDragStartBpm, bpmHandlers, presetData>>
  /\ UNCHANGED downs
  /\ UNCHANGED sched

(* loadLoop(name): find the preset by name; an unknown name returns.  *)
LoadLoop(name) ==
  /\ connected
  /\ IF name \in LoopNames
     THEN LET k == CHOOSE i \in 1..Len(PREMADE_LOOPS) : PREMADE_LOOPS[i].name = name IN
          /\ patterns' = [patterns EXCEPT ![currentPattern] = presetData[k]]
          /\ rowRef' = [rowRef EXCEPT ![currentPattern] = [t \in 0..(NumTracks - 1) |-> CopyRow(<<k, t>>)]]
          /\ bpm' = PREMADE_LOOPS[k].bpm
     ELSE UNCHANGED <<patterns, bpm, rowRef>>
  /\ bpmFixed' = (bpmFixed /\ bpm' = bpm)
  /\ NoOutput
  /\ UNCHANGED <<currentPattern, activeEditingStep, stepDragStartY, stepDragStartPitch,
                 stepHandlers, bpmDragStartY, bpmDragStartBpm, bpmHandlers, presetData>>
  /\ UNCHANGED downs
  /\ UNCHANGED sched

(* ---- DrumMachine -------------------------------------------------------------*)
seqVars == <<patterns, currentPattern, bpm, isPlaying, currentStep, melodyBuffer, melodyDecodes,
             soundsLoaded, connected, listening,
             nextNoteTime, timerArmed, melodySources, melodySource,
             frames,
             activeEditingStep, stepDragStartY, stepDragStartPitch, stepHandlers,
             bpmDragStartY, bpmDragStartBpm, bpmHandlers,
             issued, steps, stopped, t0, runSteps, bpmFixed, prevPass, downs,
             exportJob, exportOut, rowRef, presetData>>
DmQuiet == dmStarted' = <<>> /\ dmError' = FALSE

(* loadSamples(): returns at once when loaded; otherwise starts one fetch   *)
(* and decode per sample (a pending call holds the voices not yet settled). *)
DmLoadSamples ==
  /\ IF dmLoaded
     THEN UNCHANGED dmCalls
     ELSE /\ Len(dmCalls) < MaxLoadCalls
          /\ dmCalls' = Append(dmCalls, DmVoices)
  /\ DmQuiet
  /\ UNCHANGED <<dmOutcome, dmLoaded, dmSamples>>
  /\ UNCHANGED <<seqVars, edVars, wavVars>>

(* One fetch/decode of SAMPLES[i] of call c settles: on success              *)
(* samples[i] = audioBuffer, on failure the catch only logs.  Decoding the   *)
(* same embedded data gives the same outcome every time.                     *)
DmSettle(c, i) ==
  /\ c \in 1..Len(dmCalls)
  /\ i \in dmCalls[c]
  /\ \E ok \in BOOLEAN :
       /\ dmOutcome[i] # "unknown" => ok = (dmOutcome[i] = "ok")
       /\ dmOutcome' = [j \in DmVoices |->
                         IF DmSampleData(j) = DmSampleData(i) THEN IF ok THEN "ok" ELSE "fail"
                         ELSE dmOutcome[j]]
       /\ dmSamples' = IF ok THEN [dmSamples EXCEPT ![i] = TRUE] ELSE dmSamples
  /\ dmCalls' = [dmCalls EXCEPT ![c] = @ \ {i}]
  /\ DmQuiet
  /\ UNCHANGED dmLoaded
  /\ UNCHANGED <<seqVars, edVars, wavVars>>

DmFinishEarly(c) ==
  /\ c \in 1..Len(dmCalls)
  /\ dmLoaded' = TRUE
  /\ dmCalls' = [j \in 1..(Len(dmCalls) - 1) |-> IF j < c THEN dmCalls[j] ELSE dmCalls[j + 1]]
  /\ DmQuiet
  /\ UNCHANGED <<dmOutcome, dmSamples>>
  /\ UNCHANGED <<seqVars, edVars, wavVars>>

(* await Promise.all(loadPromises) resolves; loaded = true.                 *)
DmFinish(c) ==
  /\ c \in 1..Len(dmCalls)
  /\ dmCalls[c] = {}
  /\ dmLoaded' = TRUE
  /\ dmCalls' = [j \in 1..(Len(dmCalls) - 1) |-> IF j < c THEN dmCalls[j] ELSE dmCalls[j + 1]]
  /\ DmQuiet
  /\ UNCHANGED <<dmOutcome, dmSamples>>
  /\ UNCHANGED <<seqVars, edVars, wavVars>>

(* Gain of the per-trigger GainNode, in tenths: 1.5 for the 808, else the    *)
(* GainNode default 1.0.                                                     *)
DmGainBad(index) == IF index <= 1 THEN 15 ELSE 10
DmGain(index) == IF index = 0 THEN 15 ELSE 10

(* Audio times in tenths of a second; currentTime is DmNow.                 *)
DmPlayNoSampleCheck(index, time, pitch) ==
  /\ LET valid == dmLoaded /\ index \in DmVoices
         arg == IF time = 0 THEN DmNow ELSE time
     IN
     IF ~valid THEN dmStarted' = <<>> /\ dmError' = FALSE
     ELSE IF arg < 0 THEN dmStarted' = <<>> /\ dmError' = TRUE
     ELSE /\ dmStarted' = <<[index |-> index, start |-> IF arg < DmNow THEN DmNow ELSE arg,
                              detune |-> pitch, gain |-> DmGain(index)]>>
          /\ dmError' = FALSE
  /\ UNCHANGED <<dmOutcome, dmLoaded, dmSamples, dmCalls>>
  /\ UNCHANGED <<seqVars, edVars, wavVars>>

(* play(index, time, pitchBend): return unless loaded and samples[index]    *)
(* exists; else a source with detune = pitchBend through a new GainNode,    *)
(* source.start(time || currentTime).  AudioScheduledSourceNode.start throws *)
(* a RangeError for a negative time; a time already past starts at once.     *)
DmPlay(index, time, pitch) ==
  /\ LET valid == dmLoaded /\ index \in DmVoices /\ dmSamples[index]
         arg == IF time = 0 THEN DmNow ELSE time
     IN
     IF ~valid THEN dmStarted' = <<>> /\ dmError' = FALSE
     ELSE IF arg < 0 THEN dmStarted' = <<>> /\ dmError' = TRUE
     ELSE /\ dmStarted' = <<[index |-> index, start |-> IF arg < DmNow THEN DmNow ELSE arg,
                              detune |-> pitch, gain |-> DmGain(index)]>>
          /\ dmError' = FALSE
  /\ UNCHANGED <<dmOutcome, dmLoaded, dmSamples, dmCalls>>
  /\ UNCHANGED <<seqVars, edVars, wavVars>>

(* ---- AudioEditor (PromptDjMidi.ts) --------------------------------------------*)
(* Times are in eighths of a second (exact in binary64); a buffer holds      *)
(* EdRate frames per second.  Sample values identify channel and frame.      *)
TimeDen == 8
Buffer(ch, len) == [ch |-> ch, rate |-> EdRate, len |-> len,
                    data |-> [c \in 0..(ch - 1) |-> [i \in 0..(len - 1) |-> 10 * c + i + 1]]]
Blobs == {Buffer(1, 2 * EdRate), Buffer(2, EdRate)}
Duration(b) == (b.len * TimeDen) \div b.rate
(* Math.floor(time * sampleRate) *)
Frame(t, rate) == (t * rate) \div TimeDen
Min2(a, b) == IF a < b THEN a ELSE b
Max2(a, b) == IF a < b THEN b ELSE a
(* TypedArray.prototype.subarray(begin, end) on an array of n elements.      *)
RelIndex(x, n) == IF x < 0 THEN Max2(n + x, 0) ELSE Min2(x, n)
SubArray(arr, n, begin, end) ==
  LET lo == RelIndex(begin, n)
      hi == Max2(RelIndex(end, n), lo)
  IN [j \in 0..(hi - lo - 1) |-> arr[lo + j]]
SubLen(n, begin, end) == Max2(RelIndex(end, n), RelIndex(begin, n)) - RelIndex(begin, n)

(* The frame bounds cutSelection computes: start = min(selectionStart,      *)
(* selectionEnd), end = Math.max(this.selectionEnd, this.selectionEnd).      *)
CutStartFrame(s, e, rate) == Frame(Min2(s, e), rate)
CutEndFrameOffByOne(s, e, rate) == Frame(Max2(e, e), rate) + 1
CutEndFrame(s, e, rate) == Frame(Max2(e, e), rate)

(* The buffer-building part of cutSelection for frames [a, b): a null      *)
(* buffer when newLength <= 0; otherwise createBuffer and, per channel,     *)
(* set(old.subarray(0, a), 0) and set(old.subarray(b), a).  set throws a    *)
(* RangeError for a negative offset or a source overrunning the target.     *)
CutBuffer(buf, a, b) ==
  LET n == buf.len
      newLength == n - (b - a)
      l1 == SubLen(n, 0, a)
      l2 == SubLen(n, b, n)
  IN IF newLength <= 0 THEN [thrown |-> FALSE, buf |-> Null]
     ELSE IF l1 > newLength \/ a < 0 \/ a + l2 > newLength
     THEN [thrown |-> TRUE, buf |-> <<buf>>]
     ELSE [thrown |-> FALSE,
           buf |-> <<[ch |-> buf.ch, rate |-> buf.rate, len |-> newLength,
                      data |-> [c \in 0..(buf.ch - 1) |->
                                 LET src1 == SubArray(buf.data[c], n, 0, a)
                                     src2 == SubArray(buf.data[c], n, b, n)
                                 IN [j \in 0..(newLength - 1) |->
                                       IF j >= a /\ j < a + l2 THEN src2[j - a]
                                       ELSE IF j < l1 THEN src1[j] ELSE 0]]]>>]

EdFrame == <<seqVars, dmVars, wavVars, edAttached>>
NoCut == lastCut' = Null
selVars == <<audioBuffer, selectionStart, selectionEnd, isDragging, isLoading, pendingBuffer, edLoads>>
pbVars == <<edPlaying, playbackTime, playheadPosition, playbackStartTime, sourceNode, liveNodes,
            endedQueue, rafCurrent, rafOrphans, afSet, nextNode, pbFrom, pbOps>>

(* Playback state of the editor: isPlaying, playbackTime (offset),          *)
(* playheadPosition, playbackStartTime, sourceNode (0: null), the source    *)
(* nodes still sounding with their end times, the nodes whose ended event   *)
(* is queued, whether the callback with id animationFrameId is pending,     *)
(* how many other requested frame callbacks are pending, whether            *)
(* animationFrameId has been set, the next node id, the buffer offset the   *)
(* last started node began at, and a record of each play(), pause(), stop() *)
(* and loop() call of the last step with the fields it read and set.       *)
PbCur == [playing |-> edPlaying, offset |-> playbackTime, pos |-> playheadPosition,
          start |-> playbackStartTime, src |-> sourceNode, live |-> liveNodes,
          queue |-> endedQueue, cur |-> rafCurrent, orph |-> rafOrphans, af |-> afSet,
          next |-> nextNode, from |-> pbFrom, ops |-> <<>>]
SetPb(st) ==
  /\ edPlaying' = st.playing /\ playbackTime' = st.offset /\ playheadPosition' = st.pos
  /\ playbackStartTime' = st.start /\ sourceNode' = st.src /\ liveNodes' = st.live
  /\ endedQueue' = st.queue /\ rafCurrent' = st.cur /\ rafOrphans' = st.orph
  /\ afSet' = st.af /\ nextNode' = st.next /\ pbFrom' = st.from /\ pbOps' = st.ops
NodeIds(live) == {n.id : n \in live}
(* sourceNode.stop(): a node still sounding ends and queues its ended event. *)
StopNode(st) ==
  IF st.src # 0 /\ st.src \in NodeIds(st.live)
  THEN [st EXCEPT !.live = {n \in st.live : n.id # st.src}, !.queue = @ \cup {st.src}]
  ELSE st
(* if (this.animationFrameId) cancelAnimationFrame(this.animationFrameId) *)
CancelFrame(st) == IF st.af THEN [st EXCEPT !.cur = FALSE] ELSE st
(* stop() *)
PbStop(st) ==
  LET r == CancelFrame([StopNode(st) EXCEPT !.src = 0, !.playing = FALSE, !.offset = 0, !.pos = 0])
  IN [r EXCEPT !.ops = Append(@, [op |-> "stop", playing |-> r.playing, offset |-> r.offset,
                                  pos |-> r.pos])]
(* pause() *)
PbPause(st, now) ==
  IF ~st.playing \/ st.src = 0 THEN st
  ELSE LET r == CancelFrame([StopNode([st EXCEPT !.offset = st.offset + (now - st.start)])
                               EXCEPT !.src = 0, !.playing = FALSE])
       IN [r EXCEPT !.ops = Append(@, [op |-> "pause", before |-> st.offset, start |-> st.start,
                                       now |-> now, after |-> r.offset, playing |-> r.playing])]
(* loop(): update the playhead, stop() at the end, then draw() and         *)
(* animationFrameId = requestAnimationFrame(() => this.loop()).             *)
PbLoop(st, hasBuf, dur, now) ==
  LET p == st.offset + (now - st.start)
      a == IF st.playing /\ hasBuf
           THEN IF p >= dur THEN PbStop([st EXCEPT !.pos = p]) ELSE [st EXCEPT !.pos = p]
           ELSE st
  IN [a EXCEPT !.orph = a.orph + (IF a.cur THEN 1 ELSE 0), !.cur = TRUE, !.af = TRUE,
               !.ops = Append(@, [op |-> "loop", wasPlaying |-> st.playing, hasBuf |-> hasBuf,
                                  p |-> p, dur |-> dur, playing |-> a.playing,
                                  offset |-> a.offset])]
PbPlayFromOffset(st, hasBuf, dur, now) ==
  IF ~hasBuf \/ st.playing THEN st
  ELSE LET o == st.offset
           n0 == [st EXCEPT !.src = st.next,
                            !.live = @ \cup {[id |-> st.next, end |-> now + (dur - o)]},
                            !.start = now, !.playing = TRUE, !.next = st.next + 1, !.from = o]
           n1 == [n0 EXCEPT !.ops = Append(@, [op |-> "play", offset |-> st.offset, dur |-> dur,
                                               now |-> now, start |-> n0.start, from |-> n0.from])]
       IN PbLoop(n1, hasBuf, dur, now)
(* play(): a new source started at offset playbackTime % duration, which     *)
(* ends after the rest of the buffer; then loop().                           *)
PbPlay(st, hasBuf, dur, now) ==
  IF ~hasBuf \/ st.playing THEN st
  ELSE LET o == st.offset % dur
           n0 == [st EXCEPT !.src = st.next,
                            !.live = @ \cup {[id |-> st.next, end |-> now + (dur - o)]},
                            !.start = now, !.playing = TRUE, !.next = st.next + 1, !.from = o]
           n1 == [n0 EXCEPT !.ops = Append(@, [op |-> "play", offset |-> st.offset, dur |-> dur,
                                               now |-> now, start |-> n0.start, from |-> n0.from])]
       IN PbLoop(n1, hasBuf, dur, now)
BufDur == IF audioBuffer = Null THEN 1 ELSE Duration(audioBuffer[1])
HasBuf == audioBuffer # Null
(* Bound on the source nodes play() creates. *)
NodesLeft == nextNode <= MaxNodes

(* updated(): audioBlob changed; isLoading = true and the decode is        *)
(* awaited.  Each change starts its own decode; earlier ones stay pending.  *)
SetAudioBlob(buf) ==
  /\ edAttached
  /\ edLoads < MaxLoads
  /\ isLoading' = TRUE
  /\ pendingBuffer' = pendingBuffer (+) SetToBag({<<buf>>})
  /\ edLoads' = edLoads + 1
  /\ NoCut
  /\ pbLast' = "other"
  /\ UNCHANGED <<audioBuffer, selectionStart, selectionEnd, isDragging, edNow>>
  /\ UNCHANGED pbVars
  /\ UNCHANGED EdFrame

DecodeDoneKeepSelection(p) ==
  /\ p \in BagToSet(pendingBuffer)
  /\ audioBuffer' = p
  /\ pendingBuffer' = pendingBuffer (-) SetToBag({p})
  /\ isLoading' = FALSE
  /\ SetPb(PbStop(PbCur))
  /\ NoCut
  /\ pbLast' = "load"
  /\ UNCHANGED <<selectionStart, selectionEnd, isDragging, edLoads, edNow>>
  /\ UNCHANGED EdFrame

(* updated(): a pending decodeAudioData resolves; audioBuffer = it,          *)
(* isLoading = false, resetPlayback() (stop(), selection cleared).           *)
DecodeDone(p) ==
  /\ p \in BagToSet(pendingBuffer)
  /\ audioBuffer' = p
  /\ pendingBuffer' = pendingBuffer (-) SetToBag({p})
  /\ isLoading' = FALSE
  /\ SetPb(PbStop(PbCur))
  /\ selectionStart' = Null /\ selectionEnd' = Null
  /\ NoCut
  /\ pbLast' = "load"
  /\ UNCHANGED <<isDragging, edLoads, edNow>>
  /\ UNCHANGED EdFrame

(* updated(): a pending decodeAudioData rejects; the rest of updated() is   *)
(* skipped, so isLoading stays as it is and the buffer is kept.             *)
DecodeFail(p) ==
  /\ p \in BagToSet(pendingBuffer)
  /\ pendingBuffer' = pendingBuffer (-) SetToBag({p})
  /\ NoCut
  /\ pbLast' = "reject"
  /\ UNCHANGED <<audioBuffer, selectionStart, selectionEnd, isDragging, isLoading, edLoads, edNow>>
  /\ UNCHANGED pbVars
  /\ UNCHANGED EdFrame

(* handleCanvasDown: time = (x / canvas.width) * duration, x >= 0 inside the *)
(* container; canvas.width is the one of the last draw(), so after a resize *)
(* the time may exceed the duration.                                        *)
CanvasDown(t) ==
  /\ edAttached
  /\ audioBuffer # Null
  /\ isDragging' = TRUE
  /\ selectionStart' = <<t>> /\ selectionEnd' = <<t>>
  /\ NoCut
  /\ pbLast' = "other"
  /\ UNCHANGED <<audioBuffer, isLoading, pendingBuffer, edLoads, edNow>>
  /\ UNCHANGED pbVars
  /\ UNCHANGED EdFrame

(* handleCanvasMove *)
CanvasMove(t) ==
  /\ edAttached
  /\ isDragging /\ audioBuffer # Null
  /\ selectionEnd' = <<t>>
  /\ NoCut
  /\ pbLast' = "other"
  /\ UNCHANGED <<audioBuffer, selectionStart, isDragging, isLoading, pendingBuffer, edLoads, edNow>>
  /\ UNCHANGED pbVars
  /\ UNCHANGED EdFrame

(* handleCanvasUp (pointerup or pointerleave) *)
CanvasUp ==
  /\ edAttached
  /\ isDragging
  /\ isDragging' = FALSE
  /\ NoCut
  /\ pbLast' = "other"
  /\ UNCHANGED <<audioBuffer, selectionStart, selectionEnd, isLoading, pendingBuffer, edLoads, edNow>>
  /\ UNCHANGED pbVars
  /\ UNCHANGED EdFrame

(* playPause() *)
PlayPause ==
  /\ edAttached
  /\ HasBuf
  /\ edPlaying \/ NodesLeft
  /\ SetPb(IF edPlaying THEN PbPause(PbCur, edNow) ELSE PbPlay(PbCur, HasBuf, BufDur, edNow))
  /\ pbLast' = IF edPlaying THEN "pause" ELSE "play"
  /\ NoCut
  /\ UNCHANGED selVars
  /\ UNCHANGED <<selectionStart, edNow>>
  /\ UNCHANGED EdFrame

(* The Stop button: stop(). *)
StopButton ==
  /\ edAttached
  /\ HasBuf
  /\ SetPb(PbStop(PbCur))
  /\ pbLast' = "stop"
  /\ NoCut
  /\ UNCHANGED selVars
  /\ UNCHANGED edNow
  /\ UNCHANGED EdFrame

(* rewind(): while playing pause(), offset and playhead 0, play(). *)
Rewind ==
  /\ edAttached
  /\ HasBuf
  /\ ~edPlaying \/ NodesLeft
  /\ SetPb(IF edPlaying
           THEN PbPlay([PbPause(PbCur, edNow) EXCEPT !.offset = 0, !.pos = 0], HasBuf, BufDur, edNow)
           ELSE [PbCur EXCEPT !.offset = 0, !.pos = 0])
  /\ pbLast' = "rewind"
  /\ NoCut
  /\ UNCHANGED selVars
  /\ UNCHANGED edNow
  /\ UNCHANGED EdFrame

(* The audio clock of the open context advances an eighth of a second;     *)
(* sources reaching their end stop and queue their ended event.             *)
EdClock ==
  /\ edAttached
  /\ edNow < MaxEdClock
  /\ edNow' = edNow + 1
  /\ LET done == {n \in liveNodes : n.end <= edNow + 1} IN
     /\ liveNodes' = liveNodes \ done
     /\ endedQueue' = endedQueue \cup NodeIds(done)
  /\ pbLast' = "clock"
  /\ NoCut
  /\ UNCHANGED <<edPlaying, playbackTime, playheadPosition, playbackStartTime, sourceNode,
                 rafCurrent, rafOrphans, afSet, nextNode, pbFrom, pbOps>>
  /\ UNCHANGED selVars
  /\ UNCHANGED EdFrame

(* A node's onended: if (this.isPlaying) this.stop(). *)
OnEnded(id) ==
  /\ id \in endedQueue
  /\ LET st == [PbCur EXCEPT !.queue = @ \ {id}] IN
     SetPb(IF st.playing THEN PbStop(st) ELSE st)
  /\ pbLast' = "ended"
  /\ NoCut
  /\ UNCHANGED selVars
  /\ UNCHANGED edNow
  /\ UNCHANGED EdFrame

(* A pending requestAnimationFrame callback runs loop(): the one with id     *)
(* animationFrameId, or an earlier one.                                      *)
AnimationFrame(current) ==
  /\ IF current THEN rafCurrent ELSE rafOrphans > 0
  /\ LET st == IF current THEN [PbCur EXCEPT !.cur = FALSE] ELSE [PbCur EXCEPT !.orph = @ - 1] IN
     SetPb(PbLoop(st, HasBuf, BufDur, edNow))
  /\ pbLast' = "frame"
  /\ NoCut
  /\ UNCHANGED selVars
  /\ UNCHANGED edNow
  /\ UNCHANGED EdFrame

(* disconnectedCallback(): audioContext.close(), then                       *)
(* cancelAnimationFrame(animationFrameId) when it is set.  The element is   *)
(* removed from the page when the editor closes: no user event reaches it   *)
(* afterwards and the closed context's clock stops; a decode already under  *)
(* way may still resolve (DecodeDone), reject (DecodeFail) or never settle;  *)
(* isPlaying, sourceNode and the offsets are left as they are.             *)
(* Whether a source still sounding dispatches ended on close is left open.  *)
EdDisconnect(fire) ==
  /\ edAttached
  /\ edAttached' = FALSE
  /\ LET st == CancelFrame(PbCur)
         done == IF fire THEN liveNodes ELSE {}
     IN SetPb([st EXCEPT !.live = @ \ done, !.queue = @ \cup NodeIds(done)])
  /\ pbLast' = "disconnect"
  /\ NoCut
  /\ UNCHANGED selVars
  /\ UNCHANGED edNow
  /\ UNCHANGED <<seqVars, dmVars, wavVars>>

(* cutSelection(): return without a buffer and both bounds; else stop(),    *)
(* build the new buffer, then resetPlayback().  An exception thrown by set  *)
(* leaves the state stop() produced.                                          *)
CutSelection ==
  /\ edAttached
  /\ IF audioBuffer = Null \/ selectionStart = Null \/ selectionEnd = Null
     THEN /\ lastCut' = <<[buf |-> audioBuffer, s |-> selectionStart, e |-> selectionEnd,
                           thrown |-> FALSE]>>
          /\ UNCHANGED <<audioBuffer, selectionStart, selectionEnd>>
          /\ UNCHANGED pbVars
     ELSE LET b == audioBuffer[1]
              r == CutBuffer(b, CutStartFrame(selectionStart[1], selectionEnd[1], b.rate),
                                CutEndFrame(selectionStart[1], selectionEnd[1], b.rate))
          IN /\ lastCut' = <<[buf |-> audioBuffer, s |-> selectionStart, e |-> selectionEnd,
                              thrown |-> r.thrown]>>
             /\ IF r.thrown
                THEN /\ SetPb(PbStop(PbCur))
                     /\ UNCHANGED <<audioBuffer, selectionStart, selectionEnd>>
                ELSE /\ SetPb(PbStop(PbStop(PbCur)))
                     /\ audioBuffer' = r.buf
                     /\ selectionStart' = Null /\ selectionEnd' = Null
  /\ pbLast' = "cut"
  /\ UNCHANGED <<isDragging, isLoading, pendingBuffer, edLoads, edNow>>
  /\ UNCHANGED EdFrame

(* ---- WAV encoding (AudioEditor.downloadWav, DrumSequencer.downloadWav) ----*)
(* A float32 sample is SampleNum / SampleDen.  Products with 32767 or 32768 *)
(* of such a sample are exact in binary64, so the encoders compute on exact  *)
(* rationals.                                                                *)
SampleDen == 262144
(* DataView.setUint32 / setUint16 (value, littleEndian = true) *)
LE32(x) == <<x % 256, (x \div 256) % 256, (x \div 65536) % 256, (x \div 16777216) % 256>>
LE16(x) == <<x % 256, (x \div 256) % 256>>
(* DataView.setInt16(pos, v, true): ToInt16, two's complement. *)
I16(v) == LE16((v + 65536) % 65536)
(* Math.max(-1, Math.min(1, x)) *)
ClampSample(k) == IF k > SampleDen THEN SampleDen ELSE IF k < -SampleDen THEN -SampleDen ELSE k
(* floor(k * (32768 - d) / SampleDen) for 0 <= k <= SampleDen, d in {0, 1}, *)
(* evaluated without leaving 32-bit integers.                               *)
FloorScaled(k, d) == (k \div 8) + (((k % 8) * 32768 - d * k) \div SampleDen)
(* Truncation toward zero (| 0, ToInt16) of k * (32768 - d) / SampleDen. *)
TruncScaled(k, d) == IF k >= 0 THEN FloorScaled(k, d) ELSE -FloorScaled(-k, d)
(* AudioEditor: (0.5 + sample < 0 ? sample * 32768 : sample * 32767) | 0 *)
EditorSample(x) ==
  LET k == ClampSample(x) IN
  IF 2 * k + SampleDen < 0 THEN TruncScaled(k, 0) ELSE TruncScaled(k, 1)
(* DrumSequencer: setInt16(pos, sample < 0 ? sample * 32768 : sample * 32767) *)
SequencerSample(x) ==
  LET k == ClampSample(x) IN
  IF k < 0 THEN TruncScaled(k, 0) ELSE TruncScaled(k, 1)
(* The header writes of AudioEditor.downloadWav; len = length * chan * 2 + 44. *)
EditorWavHeader(numOfChan, rate, length) ==
  LET len == length * numOfChan * 2 + 44 IN
  LE32(1179011410) \o LE32(len - 8) \o LE32(1163280727) \o LE32(544501094)
  \o LE32(16) \o LE16(1) \o LE16(numOfChan) \o LE32(rate) \o LE32(rate * 2 * numOfChan)
  \o LE16(numOfChan * 2) \o LE16(16) \o LE32(1635017060) \o LE32(len - 40 - 4)
SequencerWavHeaderDataLenBad(numOfChan, rate, length) ==
  LET len == length * numOfChan * 2 + 44 IN
  LE32(1179011410) \o LE32(len - 8) \o LE32(1163280727) \o LE32(544501094)
  \o LE32(16) \o LE16(1) \o LE16(numOfChan) \o LE32(rate) \o LE32(rate * 2 * numOfChan)
  \o LE16(numOfChan * 2) \o LE16(16) \o LE32(1635017060) \o LE32(len - 40)
(* The header writes of DrumSequencer.downloadWav (pos = 40 at the last). *)
SequencerWavHeader(numOfChan, rate, length) ==
  LET len == length * numOfChan * 2 + 44 IN
  LE32(1179011410) \o LE32(len - 8) \o LE32(1163280727) \o LE32(544501094)
  \o LE32(16) \o LE16(1) \o LE16(numOfChan) \o LE32(rate) \o LE32(rate * 2 * numOfChan)
  \o LE16(numOfChan * 2) \o LE16(16) \o LE32(1635017060) \o LE32(len - 40 - 4)
(* for (ch = 0; ch < numOfChan; ch++) setInt16(conv(channels[ch][i])) *)
RECURSIVE WavChannels(_, _, _, _)
WavChannels(enc, buf, i, ch) ==
  IF ch >= buf.ch THEN <<>>
  ELSE I16(IF enc = "editor" THEN EditorSample(buf.data[ch][i]) ELSE SequencerSample(buf.data[ch][i]))
       \o WavChannels(enc, buf, i, ch + 1)
(* for (i = 0; i < buffer.length; i++) ... *)
RECURSIVE WavFrames(_, _, _)
WavFrames(enc, buf, i) ==
  IF i >= buf.len THEN <<>> ELSE WavChannels(enc, buf, i, 0) \o WavFrames(enc, buf, i + 1)
EditorWav(buf) == EditorWavHeader(buf.ch, buf.rate, buf.len) \o WavFrames("editor", buf, 0)
SequencerWav(buf) == SequencerWavHeader(buf.ch, buf.rate, buf.len) \o WavFrames("sequencer", buf, 0)

(* One download: the bytes of the Blob. *)
WavEncode(enc, buf) ==
  /\ wavOut = <<>>
  /\ wavIn' = <<[enc |-> enc, buf |-> buf]>>
  /\ wavOut' = IF enc = "editor" THEN EditorWav(buf) ELSE SequencerWav(buf)
  /\ UNCHANGED <<seqVars, dmVars, edVars>>

(* ---- specification -----------------------------------------------------------*)
SchedLoops == {"Trap"}
SeqY == {0, 3200}
SeqCells == {<<0, 0>>, <<3, 1>>}
SeqPatterns == {0, 1}
Buttons == {0, 2}

(* Transport, scheduler, audio clock, recordings and preset loads; exports *)
(* during playback are in ExportPlaySpec.                                   *)
SchedNext ==
  \/ TogglePlayback
  \/ SchedulerTick
  \/ Disconnect
  \/ SamplesLoaded
  \/ \E len \in MelodyLens : RecordingDispatched(len)
  \/ \E len \in BagToSet(melodyDecodes), ok \in BOOLEAN : RecordingDecoded(len, ok)
  \/ \E d \in ClockSteps : ClockAdvance(d, MaxFrames)
  \/ \E name \in SchedLoops : LoadLoop(name)

Spec == Init /\ [][SchedNext]_vars

(* Transport, scheduler and audio clock with exports of every kind, several *)
(* in flight, a recording and disconnection.                                *)
ExportPlayNext ==
  \/ TogglePlayback
  \/ SchedulerTick
  \/ \E d \in BOOLEAN, m \in BOOLEAN : ~(d /\ m) /\ ExportAudio(d, m)
  \/ \E j \in BagToSet(exportJob), sf \in BOOLEAN : ExportScheduled(j, sf)
  \/ \E j \in BagToSet(exportJob), ok \in BOOLEAN : ExportRendered(j, ok)
  \/ Disconnect
  \/ SamplesLoaded
  \/ \E len \in MelodyLens : RecordingDispatched(len)
  \/ \E len \in BagToSet(melodyDecodes), ok \in BOOLEAN : RecordingDecoded(len, ok)
  \/ \E d \in ClockSteps : ClockAdvance(d, MaxFramesEdit)

ExportPlaySpec == Init /\ [][ExportPlayNext]_vars

(* Pattern and tempo editing interleaved with playback. *)
EditSchedCells == {<<1, 1>>}
EditSchedLoops == {"House"}
EditSchedNext ==
  \/ TogglePlayback
  \/ SchedulerTick
  \/ SamplesLoaded
  \/ \E d \in ClockSteps : ClockAdvance(d, MaxFramesEdit)
  \/ \E c \in EditSchedCells, y \in SeqY, b \in Buttons : StepPointerDown(c[1], c[2], y, b)
  \/ \E y \in SeqY : PointerMove(y)
  \/ PointerUp
  \/ \E i \in SeqPatterns : ChangePattern(i)
  \/ \E name \in EditSchedLoops : LoadLoop(name)

EditSchedSpec == Init /\ [][EditSchedNext]_vars

(* Pattern and tempo editing alone, with fractional pointer positions. *)
EditCells == {<<7, 15>>}
EditY == {0, 3, 3200}
EditPatterns == {0, NumPatterns - 1}
EditLoops == {"Trap", "Unknown"}
EditNext ==
  \/ \E c \in EditCells, y \in EditY, b \in {0, 1, 2} : StepPointerDown(c[1], c[2], y, b)
  \/ \E y \in EditY : PointerMove(y)
  \/ PointerUp
  \/ \E y \in EditY : BpmDragStart(y)
  \/ \E i \in EditPatterns : ChangePattern(i)
  \/ \E name \in EditLoops : LoadLoop(name)

EditSpec == Init /\ [][EditNext]_vars

(* The DrumMachine alone: loads and triggers from the sequencer and export. *)
DmIndices == {-1, 0, 1, 7, 8}
(* Times the callers pass: 0 (now), one already past, one ahead; the      *)
(* scheduler passes nextNoteTime and the export (step * (60 / bpm)) / 4,  *)
(* never a negative time.                                                  *)
DmTimes == {0, 1, 3}
DmPitches == {0, 1200}
DmNext ==
  \/ DmLoadSamples
  \/ \E c \in 1..MaxLoadCalls, i \in DmVoices : DmSettle(c, i)
  \/ \E c \in 1..MaxLoadCalls : DmFinish(c)
  \/ \E index \in DmIndices, time \in DmTimes, pitch \in DmPitches : DmPlay(index, time, pitch)

DmSpec == Init /\ [][DmNext]_vars

(* The AudioEditor: loads, selection drags, transport, cuts and closing. *)
PointerTimes == {0, 1, 4, 8, 16, 20}
EdNext ==
  \/ \E buf \in Blobs : SetAudioBlob(buf)
  \/ \E p \in BagToSet(pendingBuffer) : DecodeDone(p)
  \/ \E p \in BagToSet(pendingBuffer) : DecodeFail(p)
  \/ \E t \in PointerTimes : CanvasDown(t)
  \/ \E t \in PointerTimes : CanvasMove(t)
  \/ CanvasUp
  \/ PlayPause
  \/ StopButton
  \/ CutSelection
  \/ \E fire \in BOOLEAN : EdDisconnect(fire)

EdSpec == Init /\ [][EdNext]_vars

WavEncoders == {"editor", "sequencer"}
WavRates == {44100, 48000}
(* Samples: beyond the clamp, -1, just below -0.5, -0.5, about -0.3, 0, a *)
(* small positive value, 1 - 2^-16, 1, beyond the clamp.                  *)
SampleVals == {-524288, -262144, -131073, -131072, -78641, 0, 100, 262140, 262144, 393216}
SmallSampleVals == {-262144, 0, 262140}
WavBufs ==
  UNION {[ch : {sh[1]}, rate : WavRates, len : {sh[2]},
          data : [0..(sh[1] - 1) -> [0..(sh[2] - 1) -> SampleVals]]] : sh \in {<<1, 0>>, <<2, 0>>, <<1, 1>>, <<1, 2>>, <<2, 1>>}}
  \cup [ch : {2}, rate : {44100}, len : {2}, data : [0..1 -> [0..1 -> SmallSampleVals]]]
WavNext == \E enc \in WavEncoders, buf \in WavBufs : WavEncode(enc, buf)
WavSpec == Init /\ [][WavNext]_vars

PbBlobs == {Buffer(2, EdRate)}
PbNext ==
  \/ \E buf \in PbBlobs : SetAudioBlob(buf)
  \/ \E p \in BagToSet(pendingBuffer) : DecodeDone(p)
  \/ \E p \in BagToSet(pendingBuffer) : DecodeFail(p)
  \/ PlayPause
  \/ StopButton
  \/ Rewind
  \/ EdClock
  \/ \E id \in 1..MaxNodes : OnEnded(id)
  \/ \E current \in BOOLEAN : AnimationFrame(current)
  \/ \E fire \in BOOLEAN : EdDisconnect(fire)

PbSpec == Init /\ [][PbNext]_vars

(* Long runs at the initial tempo: transport, scheduler, clock, recordings. *)
(* Exports of every kind, several in flight, interleaved with tempo drags, *)
(* loop loads and a recording.                                             *)
(* Tempo drags start at y = 0 and move to y = 0 or 3200. *)
ExportStartY == {0}
ExportY == {0, 3200}
ExportLoops == {"Trap"}
ExportNext ==
  \/ \E d \in BOOLEAN, m \in BOOLEAN : ~(d /\ m) /\ ExportAudio(d, m)
  \/ \E j \in BagToSet(exportJob), sf \in BOOLEAN : ExportScheduled(j, sf)
  \/ \E j \in BagToSet(exportJob), ok \in BOOLEAN : ExportRendered(j, ok)
  \/ SamplesLoaded
  \/ \E len \in MelodyLens : RecordingDispatched(len)
  \/ \E len \in BagToSet(melodyDecodes), ok \in BOOLEAN : RecordingDecoded(len, ok)
  \/ \E y \in ExportStartY : BpmDragStart(y)
  \/ \E y \in ExportY : PointerMove(y)
  \/ PointerUp
  \/ \E name \in ExportLoops : LoadLoop(name)

ExportSpec == Init /\ [][ExportNext]_vars

LongNext ==
  \/ TogglePlayback
  \/ SchedulerTick
  \/ SamplesLoaded
  \/ \E len \in MelodyLens : RecordingDispatched(len)
  \/ \E len \in BagToSet(melodyDecodes), ok \in BOOLEAN : RecordingDecoded(len, ok)
  \/ \E d \in ClockSteps : ClockAdvance(d, MaxFramesLong)

LongSpec == Init /\ [][LongNext]_vars

(* ---- properties --------------------------------------------------------------*)
Running == ~stopped
Now == ClockTime(frames)
(* A scheduler pass (start or tick) took place in this step. *)
Pass == timerArmed'

(* C1: once stopPlayback has run (from togglePlayback, exportAudio or      *)
(* disconnectedCallback), until playback is started again no timeout is   *)
(* pending, so no scheduler tick runs and no drum or melody trigger is     *)
(* issued.                                                                  *)
StopCancelsTimer == [][stopped /\ stopped' => ~timerArmed' /\ issued' = <<>> /\ steps' = <<>>]_vars
StopCancelsTimerWitness ==
  stopped /\ FLess(Now, nextNoteTime) /\ patterns[currentPattern] # EmptyPattern /\ isPlaying

(* C2: starting playback (togglePlayback from stopped) needs the samples   *)
(* loaded and schedules step 0 first, at the clock's current time; after a *)
(* stop the step cursor is 0.                                               *)
StartResets ==
  /\ [](stopped => currentStep = 0)
  /\ [][~isPlaying /\ isPlaying' =>
          /\ soundsLoaded
          /\ steps' # <<>>
          /\ steps'[1] = [step |-> 0, time |-> Now]]_vars
StartResetsWitness == ~stopped /\ runSteps >= 2 /\ currentStep = 2

(* C3: while running, every advance adds (60/BPM)/4 > 0 to nextNoteTime, *)
(* so scheduled step times strictly increase within and across ticks.      *)
StepTimesIncrease ==
  [][timerArmed /\ timerArmed' =>
       LET S == steps'
           d == FDiv4(FDivInt(60, bpm))
       IN /\ FLess(FZero, d)
          /\ (S = <<>> => nextNoteTime' = nextNoteTime)
          /\ (S # <<>> =>
                /\ S[1].time = nextNoteTime
                /\ \A i \in 1..(Len(S) - 1) : S[i + 1].time = FAdd(S[i].time, d)
                /\ nextNoteTime' = FAdd(S[Len(S)].time, d)
                /\ \A i \in 1..(Len(S) - 1) : FLess(S[i].time, S[i + 1].time)
                /\ FLess(S[Len(S)].time, nextNoteTime'))]_vars
StepTimesIncreaseWitness == ~stopped /\ bpm = 150 /\ Len(steps) >= 2

(* C4: the step cursor stays in 0..15, each scheduled step is the previous *)
(* one plus 1 modulo 16, and after n advances since the start it is n mod  *)
(* 16, so 16 advances bring it back to its starting value.                 *)
StepWraps ==
  /\ [](currentStep \in 0..15 /\ (Running => currentStep = runSteps % 16))
  /\ [][Pass => \A i \in 1..(Len(steps') - 1) : steps'[i + 1].step = (steps'[i].step + 1) % 16]_vars
StepWrapsWitness == Running /\ runSteps > 16

(* C5: with the tempo unchanged since the start, the live time of step    *)
(* k = 0..15 equals t0 plus the offline export's time of step k.           *)
LiveMatchesOffline ==
  (Running /\ bpmFixed /\ runSteps <= 15) => nextNoteTime = FAdd(t0, OfflineStepTime(runSteps, bpm))

(* C6 (original statement): every trigger is issued with a time not       *)
(* earlier than the audio clock's current time.                            *)
TriggersNotInPast == \A i \in 1..Len(issued) : ~FLess(issued[i].time, Now)

(* C6 (amended): a pass issues triggers at or after the clock's current   *)
(* time when it is the start's pass, or when the clock has advanced by at  *)
(* most the 0.1 s look-ahead since the previous pass.                      *)
TriggersOnTime ==
  [][(Pass /\ (~timerArmed \/ ~FLess(FAdd(ClockTime(prevPass), FDivInt(1, 10)), Now))) =>
        \A i \in 1..Len(issued') : ~FLess(issued'[i].time, Now)]_vars
TriggersOnTimeWitness == Running /\ runSteps > Len(steps) /\ issued # <<>>

(* Tracks 0..7 whose cell at step stp of the current pattern is not null, *)
(* in increasing order.                                                     *)
RECURSIVE SortedTracks(_)
SortedTracks(T) == IF T = {} THEN <<>>
                   ELSE LET m == CHOOSE i \in T : \A j \in T : i <= j
                        IN <<m>> \o SortedTracks(T \ {m})
ExpectedBlock(sd) ==
  LET T == SortedTracks({i \in 0..7 : patterns[currentPattern][i][sd.step] # Null})
  IN [j \in 1..Len(T) |-> [kind |-> "drum", track |-> T[j], step |-> sd.step, time |-> sd.time,
                            pitch |-> patterns[currentPattern][T[j]][sd.step][1]]]
     \o (IF sd.step = 0 /\ melodyBuffer # 0
         THEN <<[kind |-> "melody", track |-> -1, step |-> 0, time |-> sd.time, pitch |-> 0]>>
         ELSE <<>>)
RECURSIVE ExpectedIssue(_)
ExpectedIssue(S) == IF S = <<>> THEN <<>> ELSE ExpectedBlock(Head(S)) \o ExpectedIssue(Tail(S))

(* C7: a pass issues, for each scheduled step in order, one trigger per   *)
(* non-null cell of the current pattern at that step in track order 0..7  *)
(* with the cell's pitch at the step's time, then one melody trigger when *)
(* the step is 0 and a melody buffer is present.                          *)
TriggersPerStep == [][Pass => issued' = ExpectedIssue(steps')]_vars
TriggersPerStepWitness ==
  /\ \E i \in 1..Len(issued) : issued[i].kind = "melody"
  /\ Cardinality({issued[i].track : i \in {j \in 1..Len(issued) : issued[j].kind = "drum"}}) >= 2

(* C8: after a stop, no melody source started by the scheduler is still    *)
(* scheduled or sounding.                                                   *)
MelodySilentAfterStop == stopped => melodySources = {}

(* C9: a pattern edit, pattern switch or preset load leaves the scheduler  *)
(* state (next note time, current step, timer, playing sources) untouched  *)
(* and issues nothing; a later scheduler pass issues, for each step, a     *)
(* drum trigger exactly for the tracks whose cell in the current pattern   *)
(* is set at that time, with that cell's pitch.                            *)
EditsKeepSchedule ==
  /\ [][(patterns' # patterns \/ currentPattern' # currentPattern) =>
          /\ UNCHANGED <<nextNoteTime, currentStep, timerArmed, melodySources, melodySource>>
          /\ issued' = <<>>]_vars
  /\ [][Pass => \A k \in 1..Len(steps') :
          \A t \in 0..(NumTracks - 1) :
            LET cell == patterns'[currentPattern'][t][steps'[k].step]
                hits == {i \in 1..Len(issued') :
                           /\ issued'[i].kind = "drum" /\ issued'[i].track = t
                           /\ issued'[i].step = steps'[k].step
                           /\ issued'[i].time = steps'[k].time}
            IN IF cell = Null THEN hits = {}
               ELSE \E i \in hits : hits = {i} /\ issued'[i].pitch = cell[1]]_vars
EditsKeepScheduleWitness ==
  /\ Running /\ currentPattern = 1 /\ currentStep # 0
  /\ \E i \in 1..Len(issued) : issued[i].kind = "drum" /\ issued[i].pitch = PitchLimit

(* C10: after any edits there are exactly 4 patterns of 8 tracks by 16     *)
(* steps, and every cell is null or holds an integer in [-2400, 2400].     *)
PatternsWellFormed ==
  /\ DOMAIN patterns = 0..(NumPatterns - 1)
  /\ \A p \in DOMAIN patterns :
       /\ DOMAIN patterns[p] = 0..(NumTracks - 1)
       /\ \A t \in DOMAIN patterns[p] :
            /\ DOMAIN patterns[p][t] = 0..(NumSteps - 1)
            /\ \A s \in DOMAIN patterns[p][t] :
                 \/ patterns[p][t][s] = Null
                 \/ /\ DOMAIN patterns[p][t][s] = {1}
                    /\ patterns[p][t][s][1] \in -PitchLimit..PitchLimit
PatternsWellFormedWitness ==
  /\ patterns[NumPatterns - 1][7][15] = Cell(-PitchLimit)
  /\ \E p \in DOMAIN patterns : patterns[p][7][15] = Cell(5)

(* C11: loadLoop(name) for a known preset replaces only the current        *)
(* pattern slot with the preset's pattern and sets the BPM to the preset's *)
(* BPM, the other slots unchanged; an unknown name changes nothing.        *)
LoadLoopReplacesSlot ==
  [][\A name \in EditLoops :
       LoadLoop(name) =>
         IF \E i \in 1..Len(PREMADE_LOOPS) : PREMADE_LOOPS[i].name = name
         THEN \E i \in 1..Len(PREMADE_LOOPS) :
                /\ PREMADE_LOOPS[i].name = name
                /\ patterns'[currentPattern] = PREMADE_LOOPS[i].pattern
                /\ bpm' = PREMADE_LOOPS[i].bpm
                /\ \A q \in DOMAIN patterns : q # currentPattern => patterns'[q] = patterns[q]
         ELSE UNCHANGED <<patterns, bpm, currentPattern>>]_vars
LoadLoopReplacesSlotWitness ==
  /\ currentPattern = NumPatterns - 1
  /\ patterns[NumPatterns - 1] = PREMADE_LOOPS[2].pattern
  /\ patterns[0] # PREMADE_LOOPS[2].pattern

(* C12: once loaded, loadSamples and everything else leave the loaded flag *)
(* and the voices unchanged; loaded is set only after every decode of the *)
(* call has settled, and then exactly the voices that decoded are present, *)
(* a failed voice staying absent.                                           *)
LoadSamplesIdempotent ==
  /\ [](dmLoaded => \A i \in DmVoices : dmOutcome[i] # "unknown" /\ dmSamples[i] = (dmOutcome[i] = "ok"))
  /\ [](\A i \in DmVoices : dmOutcome[i] = "fail" => ~dmSamples[i])
  /\ [][dmLoaded => UNCHANGED <<dmLoaded, dmSamples>>]_vars
LoadSamplesIdempotentWitness ==
  /\ dmLoaded
  /\ \E i \in DmVoices : dmOutcome[i] = "fail"
  /\ \E i \in DmVoices : dmOutcome[i] = "ok"


(* C13: play starts nothing and raises nothing when the bank is not loaded, *)
(* the index is outside 0..7 or the voice failed to decode; otherwise it    *)
(* starts exactly one source at the given time (at once if already past).  *)
PlayContract ==
  [][\A index \in DmIndices, time \in DmTimes, pitch \in DmPitches :
       DmPlay(index, time, pitch) =>
         IF ~dmLoaded \/ index \notin DmVoices \/ dmOutcome[index] # "ok"
         THEN dmStarted' = <<>> /\ ~dmError'
         ELSE /\ Len(dmStarted') = 1 /\ ~dmError'
              /\ dmStarted'[1].index = index
              /\ dmStarted'[1].start = Max2(time, DmNow)]_vars

PlayContractWitness ==
  /\ dmLoaded
  /\ \E i \in DmVoices : dmOutcome[i] = "fail"
  /\ Len(dmStarted) = 1
  /\ dmStarted[1].start = 3

(* C14: the per-trigger gain is exactly 1.5 for voice 0 (808) and exactly  *)
(* 1.0 for voices 1..7 (gains in tenths).                                  *)
GainPolicy ==
  [][Len(dmStarted') = 1 =>
       dmStarted'[1].gain = IF dmStarted'[1].index = 0 THEN 15 ELSE 10]_vars
GainPolicyWitness ==
  /\ Len(dmStarted) = 1
  /\ dmStarted[1].index = 0
  /\ dmStarted[1].gain = 15

(* C15: when a decode completes, the working buffer becomes the decoded    *)
(* buffer, both selection bounds are null and playback is stopped at 0.    *)
LoadReplacesBuffer ==
  [][pbLast' = "load" =>
       /\ audioBuffer' \in BagToSet(pendingBuffer)
       /\ pendingBuffer' = pendingBuffer (-) SetToBag({audioBuffer'})
       /\ selectionStart' = Null /\ selectionEnd' = Null
       /\ ~edPlaying' /\ playbackTime' = 0]_vars
LoadReplacesBufferWitness ==
  /\ edLoads = MaxLoads
  /\ pendingBuffer = EmptyBag
  /\ audioBuffer = <<Buffer(2, EdRate)>>

(* The cut the last action performed, when it was a cutSelection call with *)
(* a buffer and both bounds.                                                *)
CutActed == lastCut' # Null /\ lastCut'[1].buf # Null /\ lastCut'[1].s # Null /\ lastCut'[1].e # Null
CutLo == Frame(Min2(lastCut'[1].s[1], lastCut'[1].e[1]), lastCut'[1].buf[1].rate)
CutHi == Frame(Max2(lastCut'[1].s[1], lastCut'[1].e[1]), lastCut'[1].buf[1].rate)
CutN == lastCut'[1].buf[1].len
(* original[0, a) ++ original[b, N) in every channel. *)
Spliced(buf, a, b) ==
  [ch |-> buf.ch, rate |-> buf.rate, len |-> buf.len - (b - a),
   data |-> [c \in 0..(buf.ch - 1) |->
              [j \in 0..(buf.len - (b - a) - 1) |->
                 IF j < a THEN buf.data[c][j] ELSE buf.data[c][j + (b - a)]]]]

(* C16: cutSelection without both bounds, or with both bounds on the same  *)
(* frame, leaves the buffer unchanged.                                      *)
CutEmptyNoop ==
  [][(lastCut' # Null /\ (~CutActed \/ CutLo = CutHi)) => audioBuffer' = audioBuffer]_vars
CutEmptyNoopWitness ==
  /\ lastCut # Null /\ lastCut[1].buf # Null
  /\ lastCut[1].s # Null /\ lastCut[1].e # Null
  /\ lastCut[1].s # lastCut[1].e
  /\ Frame(lastCut[1].s[1], EdRate) = Frame(lastCut[1].e[1], EdRate)

(* C17: a cut whose selection maps to frames [a, b), 0 <= a <= b <= N,     *)
(* b - a < N, leaves original[0, a) ++ original[b, N) in every channel.     *)
CutSplices ==
  [][(CutActed /\ 0 <= CutLo /\ CutLo <= CutHi /\ CutHi <= CutN /\ CutHi - CutLo < CutN) =>
       /\ ~lastCut'[1].thrown
       /\ audioBuffer' = <<Spliced(lastCut'[1].buf[1], CutLo, CutHi)>>]_vars

(* C18: a reversed selection (start > end) removes the same frames as the  *)
(* ordered one.                                                             *)
CutReversedLikeOrdered ==
  [][(CutActed /\ lastCut'[1].s[1] > lastCut'[1].e[1]
        /\ 0 <= CutLo /\ CutHi <= CutN /\ CutHi - CutLo < CutN) =>
       audioBuffer' = <<Spliced(lastCut'[1].buf[1], CutLo, CutHi)>>]_vars

(* C19: a cut never throws; one covering the whole buffer leaves a null    *)
(* buffer; after it the selection is cleared and playback stopped at 0.    *)
CutWholeClears ==
  [][CutActed =>
       /\ ~lastCut'[1].thrown
       /\ selectionStart' = Null /\ selectionEnd' = Null
       /\ ~edPlaying' /\ playbackTime' = 0
       /\ (CutLo <= 0 /\ CutHi >= CutN) => audioBuffer' = Null]_vars

(* C20: with bounds anywhere, cutSelection never throws and removes only   *)
(* frames of the selection that exist in the buffer.                        *)
CutOutOfRangeSafe ==
  [][CutActed =>
       /\ ~lastCut'[1].thrown
       /\ LET kept == CutN - Max2(Min2(CutHi, CutN) - Max2(CutLo, 0), 0)
          IN IF kept = 0 THEN audioBuffer' = Null
             ELSE audioBuffer' # Null /\ audioBuffer'[1].len = kept]_vars
(* C21: play records playbackStartTime = now and starts the node at the    *)
(* offset modulo the duration; pause adds now - playbackStartTime to the   *)
(* offset; stop sets offset and playhead to 0; while playing the playhead   *)
(* lies in [0, duration]; a frame whose position reaches the duration       *)
(* stops playback (not playing, offset 0).                                  *)
PbPos == playbackTime + (edNow - playbackStartTime)
PlaybackInRange == edPlaying => 0 <= playheadPosition /\ playheadPosition <= BufDur
(* Every play(), pause(), stop() and loop() call of a step, whichever       *)
(* handler made it; modded: the node starts at offset % duration rather     *)
(* than at the offset.                                                      *)
PlaybackSteps(modded) ==
  \A i \in 1..Len(pbOps') :
    LET o == pbOps'[i] IN
    /\ o.op = "play" =>
         o.start = o.now /\ o.from = (IF modded THEN o.offset % o.dur ELSE o.offset)
    /\ o.op = "pause" => ~o.playing /\ o.after = o.before + (o.now - o.start)
    /\ o.op = "stop" => ~o.playing /\ o.offset = 0 /\ o.pos = 0
    /\ o.op = "loop" /\ o.wasPlaying /\ o.hasBuf /\ o.p >= o.dur => ~o.playing /\ o.offset = 0
PlaybackBookkeeping ==
  [][PlaybackSteps(TRUE)]_vars /\ []PlaybackInRange
PlaybackBookkeepingWitness ==
  /\ \E i \in 1..Len(pbOps) : pbOps[i].op = "play" /\ pbOps[i].offset > 0
  /\ \E i \in 1..Len(pbOps) : pbOps[i].op = "loop"
  /\ edPlaying
(* The statement as given: the node starts at the offset itself.            *)
PlaybackStartsAtOffset ==
  [][PlaybackSteps(FALSE)]_vars /\ []PlaybackInRange
(* Reading the bytes back as a standard reader does: little-endian fields  *)
(* at zero-based offsets, 16-bit signed samples.                            *)
U16At(b, o) == b[o + 1] + 256 * b[o + 2]
U32At(b, o) == U16At(b, o) + 65536 * U16At(b, o + 2)
S16At(b, o) == IF U16At(b, o) >= 32768 THEN U16At(b, o) - 65536 ELSE U16At(b, o)
WavConv(enc, x) == IF enc = "editor" THEN EditorSample(x) ELSE SequencerSample(x)
(* C22: both encoders write the 44-byte little-endian header (RIFF size =  *)
(* length - 8, WAVE, a 16-byte fmt chunk with format 1, channels, rate,     *)
(* byte rate = rate * 2 * channels, block align = channels * 2, 16 bits,    *)
(* data size = channels * frames * 2) followed by the converted samples,    *)
(* frame-major, channels interleaved.                                       *)
WavLayout ==
  wavOut # <<>> =>
    LET b == wavOut
        in == wavIn[1]
        ch == in.buf.ch
        fr == in.buf.len
    IN /\ Len(b) = 44 + ch * fr * 2
       /\ SubSeq(b, 1, 4) = <<82, 73, 70, 70>> /\ U32At(b, 4) = Len(b) - 8
       /\ SubSeq(b, 9, 12) = <<87, 65, 86, 69>> /\ SubSeq(b, 13, 16) = <<102, 109, 116, 32>>
       /\ U32At(b, 16) = 16 /\ U16At(b, 20) = 1 /\ U16At(b, 22) = ch
       /\ U32At(b, 24) = in.buf.rate /\ U32At(b, 28) = in.buf.rate * 2 * ch
       /\ U16At(b, 32) = ch * 2 /\ U16At(b, 34) = 16
       /\ SubSeq(b, 37, 40) = <<100, 97, 116, 97>> /\ U32At(b, 40) = ch * fr * 2
       /\ \A i \in 0..(fr - 1), c \in 0..(ch - 1) :
            S16At(b, 44 + 2 * (i * ch + c)) = WavConv(in.enc, in.buf.data[c][i])
WavLayoutWitness ==
  /\ wavOut # <<>> /\ wavIn[1].enc = "sequencer"
  /\ wavIn[1].buf.ch = 2 /\ wavIn[1].buf.len = 2
  /\ wavIn[1].buf.data[0][1] # wavIn[1].buf.data[1][0]
(* C23: each clamped sample s is written as trunc(s * 32768) when s < 0 and *)
(* trunc(s * 32767) when s >= 0, in both encoders.                          *)
NegativeUses32768 ==
  wavOut # <<>> =>
    LET b == wavOut
        in == wavIn[1]
    IN \A i \in 0..(in.buf.len - 1), c \in 0..(in.buf.ch - 1) :
         LET k == ClampSample(in.buf.data[c][i]) IN
         S16At(b, 44 + 2 * (i * in.buf.ch + c)) = IF k < 0 THEN TruncScaled(k, 0) ELSE TruncScaled(k, 1)
(* C24: decoding the bytes gives the channel count, rate and frame count,   *)
(* and every sample v / 32768 within 1/32767 of the clamped original.       *)
WavRoundTrip ==
  wavOut # <<>> =>
    LET b == wavOut
        in == wavIn[1]
        ch == in.buf.ch
    IN /\ U16At(b, 22) = ch /\ U32At(b, 24) = in.buf.rate
       /\ U32At(b, 40) \div (2 * ch) = in.buf.len
       /\ \A i \in 0..(in.buf.len - 1), c \in 0..(ch - 1) :
            LET d == ClampSample(in.buf.data[c][i]) - 8 * S16At(b, 44 + 2 * (i * ch + c))
            IN (IF d < 0 THEN -d ELSE d) * 32767 <= SampleDen
(* C25: an export renders one bar at the tempo of the click and calls      *)
(* play() once for every non-empty cell of the current pattern at            *)
(* (step * (60 / bpm)) / 4 with the cell's pitch, unless melodyOnly; the      *)
(* melody starts at 0 exactly when not drumsOnly and a melody exists.       *)
ExpectedDrums(pat, b) ==
  {[track |-> x[1], time |-> OfflineStepTime(x[2], b), pitch |-> pat[x[1]][x[2]][1]] :
     x \in {y \in (0..(NumTracks - 1)) \X (0..(NumSteps - 1)) : pat[y[1]][y[2]] # Null}}
ExportOneBar ==
  (exportOut # Null /\ exportOut[1].kind = "scheduled") =>
    LET o == exportOut[1]
        b == o.job.bpm0
        want == IF o.job.melodyOnly THEN {} ELSE ExpectedDrums(o.job.pat0, b)
    IN /\ o.length = ExportFrames(b)
       /\ Len(o.drums) = Cardinality(want)
       /\ {o.drums[i] : i \in 1..Len(o.drums)} = want
       /\ o.melody = (~o.job.drumsOnly /\ o.job.mel0)
(* C26: an export whose sample loading or rendering fails shows exactly one *)
(* notification.                                                            *)
ExportFailureNotified ==
  (exportOut # Null /\ exportOut[1].kind = "rendered" /\ exportOut[1].failed) =>
    exportOut[1].notices = 1
(* C27: isPlaying holds exactly when a scheduler timeout is pending.       *)
PlayingIffTimer == isPlaying <=> timerArmed
(* C28: the ended event of a source node other than the current one never  *)
(* stops playback.                                                          *)
StaleEndedHarmless ==
  [][(pbLast' = "ended" /\ edPlaying /\ endedQueue \ endedQueue' # {sourceNode}) => edPlaying']_vars
(* C29: at most one requestAnimationFrame callback is pending, and none is  *)
(* pending while playback is stopped.                                      *)
PendingFrames == (IF rafCurrent THEN 1 ELSE 0) + rafOrphans
SingleFrameChain == PendingFrames <= 1 /\ (~edPlaying => PendingFrames = 0)
(* C30: no edit changes the preset arrays, so a load always yields the     *)
(* preset's original pattern.                                               *)
PresetsUnchanged ==
  /\ presetData = [k \in 1..Len(PREMADE_LOOPS) |-> PREMADE_LOOPS[k].pattern]
  /\ [][\A name \in LoopNames :
          (LoadLoop(name) /\ connected) =>
             patterns'[currentPattern] =
               PREMADE_LOOPS[CHOOSE i \in 1..Len(PREMADE_LOOPS) : PREMADE_LOOPS[i].name = name].pattern]_vars
PresetsUnchangedWitness ==
  \E p \in 0..(NumPatterns - 1), k \in 1..Len(PREMADE_LOOPS) :
    Cardinality({x \in (0..(NumTracks - 1)) \X (0..(NumSteps - 1)) :
                   patterns[p][x[1]][x[2]] # PREMADE_LOOPS[k].pattern[x[1]][x[2]]}) = 1
====
